---- MODULE Spec2Model ----
(***************************************************************************)
(* Model of the dcs-simulation-engine execution engine: the Run State      *)
(* Machine (core/run_manager.py), the Streaming Controller and the Graph   *)
(* Compiler (core/simulation_graph/core.py), the Simulation Subgraph       *)
(* (core/simulation_graph/subgraph.py) and the Router / Expression         *)
(* Evaluator (core/simulation_graph/conditions.py).                        *)
(*                                                                         *)
(* Naming: the committed message sequence is the State key `history` in    *)
(* core.py / subgraph.py / state.py and `events` in run_manager.py; the    *)
(* staged user action is `user_input` in subgraph.py and `event_draft` in  *)
(* run_manager.py.  The model keeps one field for each (history,           *)
(* user_input).                                                            *)
(***************************************************************************)
EXTENDS Integers, Sequences, FiniteSets, TLC

VARIABLES
    run,        \* the RunManager object (fields of core/run_manager.py:48-72)
    created,    \* TRUE once RunManager.create has returned a run
    createErr,  \* outcome of the last create call ("" = none yet, "ok", or the stage that raised)
    registry,   \* RunRegistry._store: the set of registered run ids
    clock,      \* datetime.now(), in seconds
    pc,         \* position of the step in progress: "idle" | "stream" | "done"
    cur,        \* SimulationGraph.stream: current_state
    g,          \* channel values of the compiled graph during the turn
    done,       \* nodes of the subgraph whose update has been streamed
    out,        \* events yielded by SimulationGraph.stream in the latest turn
    fstate,     \* the State carried by the latest final_state event
    path,       \* exit path of the latest turn
    before,     \* the State handed to the latest turn
    vres,       \* the validator's result in the latest turn (NoneMsg until it returns)
    cancel,     \* cancel_event.is_set()
    late,       \* (now - start) > timeout
    persist,    \* persistence collaborator: snapshots written, in order
    calls,      \* bookkeeping: was exit() called on an exited run, and did such a call save
    rt,         \* router specification: clause list, State, destination chosen
    cp,         \* compiler specification: node, compile outcome, run outcome
    th,         \* callers of step() on the run: position and current_state of each
    pl,         \* RunManager.play: position in the loop, input chosen, error raised
    fm          \* form specification: the State's form, and the last run of the node

vars == <<run, created, createErr, registry, clock, pc, cur, g, done, out,
          fstate, path, before, vres, cancel, late, persist, calls, rt, cp, th, pl,
          fm>>

runVars == <<run, created, createErr, registry, clock, pc, cur, g, done, out,
             fstate, path, before, vres, cancel, late, persist, calls>>

----------------------------------------------------------------------------
(* Bounds *)

MaxHist   == 3      \* longest committed history explored
MaxClock  == 1      \* seconds explored
MaxBudget == 1      \* largest user_retry_budget set through state_overrides
MaxThr    == 3      \* largest threshold of a stopping condition explored

(* Program constants *)

MAX_USER_INPUT_LENGTH == 350
DefaultTurnsLimit     == 500
DefaultRuntimeLimit   == 3600
DefaultRetryBudget    == 6

----------------------------------------------------------------------------
(* Messages and State *)

NoneMsg == [type |-> "none", content |-> "", len |-> 0, blank |-> TRUE]

SimulationMessage(t, c) == [type |-> t, content |-> c, len |-> 1, blank |-> FALSE]

IsNone(m) == m.type = "none"

\* make_state(): defaults of a fresh State
make_state ==
    [lifecycle |-> "INIT",
     exit_reason |-> "",
     history |-> <<>>,
     user_input |-> NoneMsg,
     validator_response |-> NoneMsg,
     updater_response |-> NoneMsg,
     simulator_output |-> NoneMsg,
     user_retry_budget |-> DefaultRetryBudget,
     special_user_message |-> NoneMsg,
     output_path |-> ""]

\* dict.update: keys of the patch overwrite (or add to) those of the dict
DictUpdate(d, p) ==
    [k \in (DOMAIN d) \cup (DOMAIN p) |-> IF k \in DOMAIN p THEN p[k] ELSE d[k]]

\* langgraph channel merge: `history` has the add_messages reducer, every
\* other declared key is overwritten, undeclared keys are dropped
GraphMerge(d, p) ==
    [k \in DOMAIN d |->
        IF k \in DOMAIN p
        THEN IF k = "history" THEN d[k] \o p[k] ELSE p[k]
        ELSE d[k]]

EmptyPatch == [k \in {} |-> NoneMsg]

----------------------------------------------------------------------------
(* Simulation Subgraph (core/simulation_graph/subgraph.py) *)

VALIDATOR_NAME == "subgraph_validator"
UPDATER_NAME   == "subgraph_updater"
FINALIZE_NAME  == "finalize"
SUBGRAPH_NAME  == "__SIMULATION_SUBGRAPH__"

\* what the validator's model can answer: a JSON object of type info or
\* error, a text with no parseable JSON object, or a failed invocation
ValidatorReplies == {"info", "error", "nojson", "invoke_error"}
UpdaterReplies   == {"ai", "nojson", "invoke_error"}

HumanMessage(c) == [role |-> "human", content |-> c]
AIMessage(c)    == [role |-> "ai", content |-> c]

Raised == [raised |-> TRUE, patch |-> EmptyPatch]
Returned(p) == [raised |-> FALSE, patch |-> p]

\* validate_input: the fast paths, then the model's verdict
validate_input(s, reply) ==
    LET ui == s.user_input IN
    IF IsNone(ui)
    THEN Returned([validator_response |-> SimulationMessage("info", "input_none")])
    ELSE IF ui.blank
    THEN Returned([validator_response |-> SimulationMessage("info", "input_empty")])
    ELSE IF ui.len > MAX_USER_INPUT_LENGTH
    THEN Returned([validator_response |-> SimulationMessage("error", "too_long")])
    ELSE IF reply \in {"info", "error"}
    THEN Returned([validator_response |-> SimulationMessage(reply, "vmsg")])
    ELSE Raised   \* RuntimeError (invocation) or UnboundLocalError (state_updates never bound)

\* an updater that commits its own response to history
update_world_commits(s, reply) ==
    IF reply = "ai"
    THEN Returned([updater_response |-> SimulationMessage("ai", "umsg"),
                   history |-> <<AIMessage("umsg")>>])
    ELSE Raised

\* update_world: runs whatever the validator says
update_world(s, reply) ==
    IF reply = "ai"
    THEN Returned([updater_response |-> SimulationMessage("ai", "umsg")])
    ELSE Raised

\* finalize: the decision table
finalize(s) ==
    IF IsNone(s.validator_response)
    THEN [simulator_output |-> SimulationMessage("error", "no_validation")]
    ELSE IF s.validator_response.type = "error"
    THEN [final_response |-> s.validator_response]
    ELSE IF ~IsNone(s.updater_response)
    THEN [simulator_output |-> s.updater_response,
          history |-> (IF IsNone(s.user_input) THEN <<>>
                       ELSE <<HumanMessage(s.user_input.content)>>)
                      \o <<AIMessage(s.updater_response.content)>>]
    ELSE [simulator_output |-> SimulationMessage("error", "no_response")]

----------------------------------------------------------------------------
(* Streaming Controller (SimulationGraph.stream) *)

Event(t, c) == [type |-> t, content |-> c, exhausted |-> FALSE, retries |-> -1]
FinalStateEvent == Event("final_state", "state")

\* final_state yielded after the loop instead of in a `finally:` block: the
\* early returns and an exception skip it
StreamFinallyAfterLoop(o, p) == IF p = "normal" THEN Append(o, FinalStateEvent) ELSE o

\* the `finally:` block: whatever the exit path, final_state is yielded last
StreamFinally(o, p) == Append(o, FinalStateEvent)

\* the branch with the run ended only once the budget is below zero
RejectStateBelowZero(c, vr) ==
    LET c1 == [c EXCEPT !.validator_response = vr,
                        !.user_retry_budget = c.user_retry_budget - 1] IN
    IF c1.user_retry_budget < 0
    THEN [c1 EXCEPT !.exit_reason = "user retry budget exhausted",
                    !.lifecycle = "EXIT"]
    ELSE c1

\* the validator-failure branch applied to current_state (lines 297-317)
RejectState(c, vr) ==
    LET c1 == [c EXCEPT !.validator_response = vr,
                        !.user_retry_budget = c.user_retry_budget - 1] IN
    IF c1.user_retry_budget <= 0
    THEN [c1 EXCEPT !.exit_reason = "user retry budget exhausted",
                    !.lifecycle = "EXIT"]
    ELSE c1

\* the loop body with no test of the node's name: the subgraph's own update
\* is forwarded like any other
ObserveForwardsSubgraph(c, node, upd, cancelSet, timedOut) ==
    LET c1 == DictUpdate(c, upd)
        vr == IF "validator_response" \in DOMAIN upd
              THEN upd.validator_response ELSE NoneMsg
        so == IF "simulator_output" \in DOMAIN upd
              THEN upd.simulator_output ELSE NoneMsg
    IN
    IF cancelSet
    THEN [cur |-> c1, evs |-> <<Event("info", "cancelled")>>, stop |-> "cancel"]
    ELSE IF timedOut
    THEN [cur |-> c1, evs |-> <<Event("error", "timeout")>>, stop |-> "timeout"]
    ELSE IF node = VALIDATOR_NAME /\ ~IsNone(vr) /\ vr.type = "error"
    THEN LET c2 == RejectState(c1, vr) IN
         [cur |-> c2,
          evs |-> <<[type |-> "error", content |-> vr.content,
                     exhausted |-> (c2.user_retry_budget <= 0),
                     retries |-> c2.user_retry_budget]>>,
          stop |-> "reject"]
    ELSE IF ~IsNone(so)
    THEN [cur |-> c1, evs |-> <<Event(so.type, so.content)>>, stop |-> ""]
    ELSE [cur |-> c1, evs |-> <<>>, stop |-> ""]

\* the loop body yielding the updater's response as soon as it arrives
ObserveSurfacesUpdater(c, node, upd, cancelSet, timedOut) ==
    LET c1 == DictUpdate(c, upd)
        vr == IF "validator_response" \in DOMAIN upd
              THEN upd.validator_response ELSE NoneMsg
        so == IF "simulator_output" \in DOMAIN upd THEN upd.simulator_output
              ELSE IF "updater_response" \in DOMAIN upd THEN upd.updater_response
              ELSE NoneMsg
    IN
    IF cancelSet
    THEN [cur |-> c1, evs |-> <<Event("info", "cancelled")>>, stop |-> "cancel"]
    ELSE IF timedOut
    THEN [cur |-> c1, evs |-> <<Event("error", "timeout")>>, stop |-> "timeout"]
    ELSE IF node = VALIDATOR_NAME /\ ~IsNone(vr) /\ vr.type = "error"
    THEN LET c2 == RejectState(c1, vr) IN
         [cur |-> c2,
          evs |-> <<[type |-> "error", content |-> vr.content,
                     exhausted |-> (c2.user_retry_budget <= 0),
                     retries |-> c2.user_retry_budget]>>,
          stop |-> "reject"]
    ELSE IF ~IsNone(so) /\ node # SUBGRAPH_NAME
    THEN [cur |-> c1, evs |-> <<Event(so.type, so.content)>>, stop |-> ""]
    ELSE [cur |-> c1, evs |-> <<>>, stop |-> ""]

\* the loop body with the validator-failure branch tested before the
\* cancellation signal and the time budget
ObserveRejectFirst(c, node, upd, cancelSet, timedOut) ==
    LET c1 == DictUpdate(c, upd)
        vr == IF "validator_response" \in DOMAIN upd
              THEN upd.validator_response ELSE NoneMsg
        so == IF "simulator_output" \in DOMAIN upd
              THEN upd.simulator_output ELSE NoneMsg
    IN
    IF node = VALIDATOR_NAME /\ ~IsNone(vr) /\ vr.type = "error"
    THEN LET c2 == RejectState(c1, vr) IN
         [cur |-> c2,
          evs |-> <<[type |-> "error", content |-> vr.content,
                     exhausted |-> (c2.user_retry_budget <= 0),
                     retries |-> c2.user_retry_budget]>>,
          stop |-> "reject"]
    ELSE IF cancelSet
    THEN [cur |-> c1, evs |-> <<Event("info", "cancelled")>>, stop |-> "cancel"]
    ELSE IF timedOut
    THEN [cur |-> c1, evs |-> <<Event("error", "timeout")>>, stop |-> "timeout"]
    ELSE IF ~IsNone(so) /\ node # SUBGRAPH_NAME
    THEN [cur |-> c1, evs |-> <<Event(so.type, so.content)>>, stop |-> ""]
    ELSE [cur |-> c1, evs |-> <<>>, stop |-> ""]

\* one pass of the loop body for the update of one node (lines 251-351):
\* merge, then cancellation, timeout, validator failure, normal output
Observe(c, node, upd, cancelSet, timedOut) ==
    LET c1 == DictUpdate(c, upd)
        vr == IF "validator_response" \in DOMAIN upd
              THEN upd.validator_response ELSE NoneMsg
        so == IF "simulator_output" \in DOMAIN upd
              THEN upd.simulator_output ELSE NoneMsg
    IN
    IF cancelSet
    THEN [cur |-> c1, evs |-> <<Event("info", "cancelled")>>, stop |-> "cancel"]
    ELSE IF timedOut
    THEN [cur |-> c1, evs |-> <<Event("error", "timeout")>>, stop |-> "timeout"]
    ELSE IF node = VALIDATOR_NAME /\ ~IsNone(vr) /\ vr.type = "error"
    THEN LET c2 == RejectState(c1, vr) IN
         [cur |-> c2,
          evs |-> <<[type |-> "error", content |-> vr.content,
                     exhausted |-> (c2.user_retry_budget <= 0),
                     retries |-> c2.user_retry_budget]>>,
          stop |-> "reject"]
    ELSE IF ~IsNone(so) /\ node # SUBGRAPH_NAME
    THEN [cur |-> c1, evs |-> <<Event(so.type, so.content)>>, stop |-> ""]
    ELSE [cur |-> c1, evs |-> <<>>, stop |-> ""]

\* lines 203-205: the internal fields are reset on the caller's State, after
\* current_state was copied from it (lines 192-196)
ResetInternal(s) ==
    [s EXCEPT !.simulator_output = NoneMsg,
              !.validator_response = NoneMsg,
              !.updater_response = NoneMsg]

----------------------------------------------------------------------------
(* Run State Machine (core/run_manager.py) *)

\* an exit reason: a fixed text, or "stopping condition met: <attr> <cond>"
TextReason(t) == [kind |-> "text", text |-> t, attr |-> "", op |-> <<>>, thr |-> 0]
StopReason(a, c) ==
    [kind |-> "stopping condition met", text |-> "", attr |-> a, op |-> c.op, thr |-> c.thr]
NoReason == TextReason("")

Cond(o, t) == [op |-> o, thr |-> t]

\* default_factory of RunManager.stopping_conditions
DefaultStoppingConditions ==
    << [attr |-> "turns", conds |-> <<Cond(<<">">>, DefaultTurnsLimit)>>],
       [attr |-> "runtime_seconds", conds |-> <<Cond(<<">">>, DefaultRuntimeLimit)>>] >>

RECURSIVE Pow2(_)
Pow2(n) == IF n <= 0 THEN 1 ELSE 2 * Pow2(n - 1)

\* eval(f"{attr_value}{condition}") for an integer value and a condition
\* text <op><thr>, the operator given character by character: Python's
\* reading of the operator text
PyEval(v, c) ==
    CASE c.op = <<">">>      -> IF v > c.thr THEN "True" ELSE "False"
      [] c.op = <<"<">>      -> IF v < c.thr THEN "True" ELSE "False"
      [] c.op = <<">", "=">> -> IF v >= c.thr THEN "True" ELSE "False"
      [] c.op = <<"<", "=">> -> IF v <= c.thr THEN "True" ELSE "False"
      [] c.op = <<"=", "=">> -> IF v = c.thr THEN "True" ELSE "False"
      [] c.op = <<"!", "=">> -> IF v # c.thr THEN "True" ELSE "False"
      [] c.op = <<"<", "<">> -> IF c.thr < 0 THEN "error"
                                ELSE IF v * Pow2(c.thr) # 0 THEN "True" ELSE "False"
      [] c.op = <<">", ">">> -> IF c.thr < 0 THEN "error"
                                ELSE IF v \div Pow2(c.thr) # 0 THEN "True" ELSE "False"
      [] OTHER               -> "error"   \* "=", "=>", "!" ...: SyntaxError, caught and logged

\* RunManager.turns and RunManager.runtime_seconds (computed fields)
turns(r) == Len(r.state.history)

runtime_seconds(r, now) == (IF r.end_ts >= 0 THEN r.end_ts ELSE now) - r.start_ts

NumericAttrs == {"turns", "runtime_seconds"}

AttrValue(r, a, now) == IF a = "turns" THEN turns(r) ELSE runtime_seconds(r, now)

\* only "<" and ">" taken as the start of a numeric condition
LooksNumericAngleOnly(c) == c.op # <<>> /\ Head(c.op) \in {"<", ">"}

\* the first character of the stripped condition is one of "<>!="
LooksNumeric(c) == c.op # <<>> /\ Head(c.op) \in {"<", ">", "!", "="}

RECURSIVE FirstTrue(_, _, _)
\* inner loop over one attribute's condition list: index of the first
\* condition that evaluates truthy, 0 when none does
FirstTrue(v, conds, i) ==
    IF i > Len(conds) THEN 0
    ELSE IF LooksNumeric(conds[i]) /\ PyEval(v, conds[i]) = "True" THEN i
    ELSE FirstTrue(v, conds, i + 1)

RECURSIVE FirstStop(_, _, _)
\* outer loop over the map in iteration order: first match wins; attributes
\* the run does not have are skipped
FirstStop(r, now, k) ==
    IF k > Len(r.stopping_conditions) THEN NoReason
    ELSE LET e == r.stopping_conditions[k]
             i == IF e.attr \in NumericAttrs
                  THEN FirstTrue(AttrValue(r, e.attr, now), e.conds, 1) ELSE 0
         IN IF i > 0 THEN StopReason(e.attr, e.conds[i])
            ELSE FirstStop(r, now, k + 1)

\* _ensure_stopping_conditions: the reason to exit with, NoReason when the
\* run goes on
StopCheck(r, now) ==
    IF r.state.lifecycle = "EXIT"
    THEN TextReason(IF r.state.exit_reason # "" THEN r.state.exit_reason
                    ELSE "Game graph lifecycle is EXIT. No reason given.")
    ELSE FirstStop(r, now, 1)

\* RunManager.save: skipped when already saved; a failing collaborator
\* raises out of save (database branch: out_path is never bound)
save(r, ok) ==
    IF r.saved THEN [run |-> r, wrote |-> FALSE, raised |-> FALSE]
    ELSE IF ok
    THEN [run |-> [r EXCEPT !.saved = TRUE, !.state.output_path = "written"],
          wrote |-> TRUE, raised |-> FALSE]
    ELSE [run |-> r, wrote |-> FALSE, raised |-> TRUE]

\* exit without the `if self.exited` guard
exitUnguarded(r, reason, now, ok) ==
    LET r1 == [r EXCEPT !.state.lifecycle = "EXIT",
                        !.exited = TRUE,
                        !.exit_reason = reason,
                        !.end_ts = now]
        sv == save(r1, ok)
    IN [run |-> sv.run, wrote |-> sv.wrote, raised |-> sv.raised, saves |-> 1,
        again |-> r.exited]

\* RunManager.exit: a no-op once exited
exit(r, reason, now, ok) ==
    IF r.exited
    THEN [run |-> r, wrote |-> FALSE, raised |-> FALSE, saves |-> 0, again |-> TRUE]
    ELSE LET r1 == [r EXCEPT !.state.lifecycle = "EXIT",
                             !.exited = TRUE,
                             !.exit_reason = reason,
                             !.end_ts = now]
             sv == save(r1, ok)
         IN [run |-> sv.run, wrote |-> sv.wrote, raised |-> sv.raised, saves |-> 1,
             again |-> r.exited]

\* the run_data snapshot handed to the collaborator (model_dump)
Snapshot(r) == [exit_reason |-> r.exit_reason, exited |-> r.exited,
                lifecycle |-> r.state.lifecycle]

----------------------------------------------------------------------------
(* Graph configuration and Graph Compiler (config.py, core.py) *)

MaxToks == 3        \* longest system_template explored, in tokens

\* a system_template is a token sequence: "OF" is text matching
\* output\s*format\s*: (any case), "ws" whitespace, "{" and "}" the braces,
\* "txt" any other text; `jinja` tells how the text behaves as a template
Toks == {"OF", "ws", "{", "}", "txt"}

JinjaKinds == {"plain",           \* compiles and renders against every State
               "syntax_error",    \* does not compile
               "undefined_attr",  \* reads an attribute of a name no State has
               "div_budget"}      \* {{ 1 / user_retry_budget }}

TokSeqs == UNION {[1..n -> Toks] : n \in 0..MaxToks}

Templates == [jinja : JinjaKinds, toks : TokSeqs]
NoTemplate == [jinja |-> "absent", toks |-> <<>>]

\* truthiness of Optional[str]
Truthy(t) == t.jinja # "absent" /\ t.toks # <<>>

JinjaCompiles(t) == t.jinja # "syntax_error"

JinjaRenders(t, s) ==
    CASE t.jinja = "plain"          -> TRUE
      [] t.jinja = "undefined_attr" -> FALSE
      [] t.jinja = "div_budget"     -> s.user_retry_budget # 0
      [] OTHER                      -> FALSE

RECURSIVE SkipWs(_, _)
SkipWs(t, i) == IF i <= Len(t) /\ t[i] = "ws" THEN SkipWs(t, i + 1) ELSE i

RECURSIVE PatternSearch(_, _)
\* re.search(r"output\s*format\s*:\s*\{.*?\}", IGNORECASE | DOTALL), scanning
\* from token i
PatternSearch(t, i) ==
    IF i > Len(t) THEN FALSE
    ELSE IF t[i] = "OF"
            /\ LET j == SkipWs(t, i + 1) IN
               /\ j <= Len(t)
               /\ t[j] = "{"
               /\ \E k \in (j + 1)..Len(t) : t[k] = "}"
    THEN TRUE
    ELSE PatternSearch(t, i + 1)

BuiltinNames == {"update_state", "raise_error", "command_filter", "retry", "form"}

StateKeys == DOMAIN make_state

NoKwargs == [key |-> "", val |-> "plain"]

\* Node._validate_kind_specifics: what GraphConfig accepts as a node
NodeValid(n) ==
    IF n.kind = "custom"
    THEN n.provider # "" /\ Truthy(n.system_template) /\ n.kwargs = NoKwargs
    ELSE IF n.kind = "builtin"
    THEN /\ n.builtin \in BuiltinNames
         /\ (n.builtin = "update_state" => n.kwargs # NoKwargs)
    ELSE FALSE

\* _make_node_fn without the Output Format check
MakeNodeFnRaisesNoFormatCheck(n) ==
    LET t == n.system_template IN
    /\ t.jinja # "absent"
    /\ (~JinjaCompiles(t) \/ ~JinjaRenders(t, make_state))

\* _make_node_fn, build-time part: template validation against the default
\* State, then the Output Format check; TRUE when it raises
MakeNodeFnRaises(n) ==
    LET t == n.system_template IN
    \/ /\ t.jinja # "absent"
       /\ (~JinjaCompiles(t) \/ ~JinjaRenders(t, make_state))
    \/ /\ Truthy(t)
       /\ ~PatternSearch(t.toks, 1)

EdgeKinds == {"plain", "plain_to_undeclared", "missing_to", "conditional",
              "conditional_empty", "conditional_to_undeclared"}

\* the edge loop of compile and builder.compile(): TRUE when it raises
EdgeRaises(e) == e \notin {"plain", "conditional"}

\* SimulationGraph.compile
compile(cfg) == IF MakeNodeFnRaises(cfg.node) \/ EdgeRaises(cfg.edge) THEN "ValueError" ELSE "ok"

\* RunManager.create lines 250-270: a model client per node with a provider
ContextRaises(n) == n.provider # "" /\ n.provider # "openrouter"

\* _render_any on a value of state_updates: a string with Jinja syntax is
\* rendered against the State ("template" stands for "{{ user_retry_budget }}"),
\* any other value is returned as it is
render_any(val, s) ==
    IF val = "template" THEN ToString(s.user_retry_budget) ELSE val

\* node_fn: running the node against State s; `reply` is what the model does
node_fn(n, s, reply) ==
    IF n.builtin = "update_state"
    THEN IF n.kwargs.key \notin StateKeys
         THEN "KeyError"      \* lines 63-67
         ELSE IF n.kwargs.val = "undefined_attr" THEN "render_error"
         ELSE "ok"
    ELSE IF n.builtin = "raise_error" THEN "RuntimeError"
    ELSE IF n.builtin # "" THEN "ok"
    ELSE IF n.provider # "openrouter" THEN "NotImplementedError"
    ELSE IF n.system_template.jinja = "absent" THEN "ValueError"
    ELSE IF ~JinjaRenders(n.system_template, s) THEN "render_error"
    ELSE IF reply = "invoke_error" THEN "model_error"
    ELSE "ok"       \* no parseable JSON leaves the patch empty

\* what the model behind a custom node does when invoked
NodeReplies == {"json", "prose_json", "two_objects", "bad_json", "nojson", "invoke_error"}

\* the response text of each reply, as tokens: "obj" stands for the body
\* "events": [{"type": "ai", "content": "H"}] of the answered object
ReplyText(reply) ==
    CASE reply = "json"        -> <<"{", "obj", "}">>
      [] reply = "prose_json"  -> <<"txt", "{", "obj", "}", "txt">>
      [] reply = "two_objects" -> <<"{", "obj", "}", "txt", "{", "obj", "}">>
      [] reply = "bad_json"    -> <<"{", "txt", "}">>
      [] OTHER                 -> <<"txt">>

\* re.search(r"\{.*\}", text, DOTALL): from the first "{" to the last "}"
BraceMatch(t) ==
    LET opens  == {i \in DOMAIN t : t[i] = "{"}
        closes == {i \in DOMAIN t : t[i] = "}"}
    IN  IF opens = {} THEN <<>>
        ELSE LET i == CHOOSE x \in opens : \A y \in opens : x <= y
                 after == {j \in closes : j > i}
             IN  IF after = {} THEN <<>>
                 ELSE SubSeq(t, i, CHOOSE x \in after : \A y \in after : y <= x)

\* the object the model answers: its event list under the events key
ModelAnswer == [history |-> <<AIMessage("H")>>]

\* json.loads of the matched text; an unparsable text raises, which the
\* handler logs, leaving state_updates = {}
ParseReply(reply) ==
    IF BraceMatch(ReplyText(reply)) = <<"{", "obj", "}">> THEN ModelAnswer ELSE EmptyPatch

\* node_fn with the parse step left out: state_updates is never assigned
node_patchNoParse(n, s, reply) ==
    IF node_fn(n, s, reply) # "ok" THEN EmptyPatch
    ELSE IF n.builtin = "update_state" THEN [k \in {n.kwargs.key} |-> render_any(n.kwargs.val, s)]
    ELSE EmptyPatch

\* node_fn: the patch the node returns to the graph (none when it raises)
node_patch(n, s, reply) ==
    IF node_fn(n, s, reply) # "ok" THEN EmptyPatch
    ELSE IF n.builtin = "update_state" THEN [k \in {n.kwargs.key} |-> render_any(n.kwargs.val, s)]
    ELSE IF n.builtin # "" THEN EmptyPatch
    ELSE ParseReply(reply)

\* the NodeSpec when node_fn returns: update_state assigns each rendered
\* value into the state_updates dict of the node's kwargs
node_after(n, s, reply) ==
    IF n.builtin = "update_state" /\ node_fn(n, s, reply) = "ok"
    THEN [n EXCEPT !.kwargs.val = render_any(n.kwargs.val, s)]
    ELSE n

MaxQuestions == 3   \* most questions of a form explored

\* first_unanswered(start_idx): the first question at or after `from` whose
\* answer is empty, 0 (None) when there is none; q is the list of answers
FirstUnanswered(q, from) ==
    LET S == {i \in from..Len(q) : q[i] = ""} IN
    IF S = {} THEN 0 ELSE CHOOSE i \in S : \A j \in S : i <= j

\* a form that writes the answer into every unanswered question
formAnswersAll(defined, q, draft) ==
    IF ~defined
    THEN [raised |-> TRUE, questions |-> q, recorded |-> FALSE,
          result |-> "ValueError", asked |-> 0, patch |-> q]
    ELSE LET idx0 == FirstUnanswered(q, 1)
             rec  == idx0 # 0 /\ ~IsNone(draft) /\ draft.type = "user" /\ ~draft.blank
             q1   == IF rec THEN [i \in DOMAIN q |-> IF q[i] = "" THEN draft.content ELSE q[i]]
                     ELSE q
             idx1 == IF rec THEN FirstUnanswered(q1, idx0 + 1) ELSE idx0
         IN [raised |-> FALSE, questions |-> q1, recorded |-> rec,
             result |-> IF idx1 = 0 THEN "EXIT" ELSE "question",
             asked |-> idx1, patch |-> q1]

\* the form builtin on a State whose form has the answers q and whose pending
\* user message is `draft`: `questions` is the State's own list when the
\* call returns (the answer is assigned into it), `patch` the list returned
\* under the forms key, `result` whether the patch sets lifecycle EXIT or
\* carries the question `asked`
form(defined, q, draft) ==
    IF ~defined
    THEN [raised |-> TRUE, questions |-> q, recorded |-> FALSE,
          result |-> "ValueError", asked |-> 0, patch |-> q]
    ELSE LET idx0 == FirstUnanswered(q, 1)
             rec  == idx0 # 0 /\ ~IsNone(draft) /\ draft.type = "user" /\ ~draft.blank
             q1   == IF rec THEN [q EXCEPT ![idx0] = draft.content] ELSE q
             idx1 == IF rec THEN FirstUnanswered(q1, idx0 + 1) ELSE idx0
         IN [raised |-> FALSE, questions |-> q1, recorded |-> rec,
             result |-> IF idx1 = 0 THEN "EXIT" ELSE "question",
             asked |-> idx1, patch |-> q1]

\* failures that are errors of the configuration, not of the turn's input
ConfigErrors =={"KeyError", "render_error", "NotImplementedError", "ValueError"}

----------------------------------------------------------------------------
(* RunManager.create *)

CustomNode(prov, t) ==
    [kind |-> "custom", builtin |-> "", provider |-> prov,
     system_template |-> t, kwargs |-> NoKwargs]

BuiltinNode(b, kw) ==
    [kind |-> "builtin", builtin |-> b, provider |-> "",
     system_template |-> NoTemplate, kwargs |-> kw]

GoodTemplate == [jinja |-> "plain", toks |-> <<"OF", "{", "}">>]

\* graph configurations offered to RunManager.create
RunConfigs ==
    { [node |-> CustomNode("openrouter", GoodTemplate), edge |-> "plain"],
      [node |-> CustomNode("openrouter", [jinja |-> "plain", toks |-> <<"txt">>]),
       edge |-> "plain"],
      [node |-> CustomNode("openrouter", GoodTemplate), edge |-> "plain_to_undeclared"],
      [node |-> CustomNode("huggingface", GoodTemplate), edge |-> "plain"] }

ValidPcs     == {"pc1"}
ValidNpcs    == {"npc1"}
DbCharacters == {"pc1", "npc1", "other"}
PcChoices    == {"None", "", "pc1", "other"}
NpcChoices   == {"None", "npc1", "ghost"}

\* lines 200-217: the choice is checked against the valid list when given,
\* drawn from it when None, and then looked up by hid
CharacterRaises(choice, valid) ==
    \/ choice \notin {"None", ""} /\ choice \notin valid
    \/ choice # "None" /\ choice \notin DbCharacters

\* lines 211-214: a choice of None is drawn from the valid list
PickCharacter(choice, valid) ==
    IF choice = "None" THEN CHOOSE v \in valid : TRUE ELSE choice

\* create without the compile step: the graph is compiled lazily, on the
\* first turn
CreateStageLazyCompile(loadOk, allowed, pcc, npcc, cfg) ==
    IF ~loadOk THEN "load"
    ELSE IF ~allowed THEN "access"
    ELSE IF CharacterRaises(pcc, ValidPcs) \/ CharacterRaises(npcc, ValidNpcs)
    THEN "characters"
    ELSE IF ContextRaises(cfg.node) THEN "context"
    ELSE "ok"

\* RunManager.create, in the order of the code: the stage that raises, or "ok"
CreateStage(loadOk, allowed, pcc, npcc, cfg) ==
    IF ~loadOk THEN "load"
    ELSE IF ~allowed THEN "access"
    ELSE IF CharacterRaises(pcc, ValidPcs) \/ CharacterRaises(npcc, ValidNpcs)
    THEN "characters"
    ELSE IF ContextRaises(cfg.node) THEN "context"
    ELSE IF compile(cfg) # "ok" THEN "compile"
    ELSE "ok"

NewRun(cfg, budget, now, pcc, npcc) ==
    [budget0 |-> budget,
     pc |-> PickCharacter(pcc, ValidPcs),
     npc |-> PickCharacter(npcc, ValidNpcs),
     state |-> [make_state EXCEPT !.user_retry_budget = budget, !.lifecycle = "ENTER"],
     exited |-> FALSE,
     saved |-> FALSE,
     exit_reason |-> NoReason,
     start_ts |-> now,
     end_ts |-> -1,
     stopping_conditions |-> DefaultStoppingConditions,
     game_stopping_conditions |-> <<>>,   \* game_config.stopping_conditions
     cfg |-> cfg]

NoRun == NewRun(CHOOSE c \in RunConfigs : c.edge = "plain_to_undeclared", 0, 0, "None", "None")

----------------------------------------------------------------------------
(* The run specification: one run, created, stepped and exited *)

\* inputs of step(): None, a command, or a user text
TextMsg(n, b) == [type |-> "user", content |-> "act", len |-> n, blank |-> b]

\* a text with a leading "/" that names none of the commands step() knows
CommandMsg(c) == [type |-> "user", content |-> c, len |-> 5, blank |-> FALSE]

\* texts with a leading "/": the commands step() handles locally, and one it
\* does not know
CommandInputs ==
    { [kind |-> "quit", msg |-> NoneMsg],
      [kind |-> "feedback", msg |-> NoneMsg],
      [kind |-> "command", msg |-> CommandMsg("/save")] }

StepInputs ==
    { [kind |-> "none", msg |-> NoneMsg],
      [kind |-> "quit", msg |-> NoneMsg],
      [kind |-> "text", msg |-> TextMsg(MAX_USER_INPUT_LENGTH, FALSE)],
      [kind |-> "text", msg |-> TextMsg(MAX_USER_INPUT_LENGTH + 1, FALSE)] }

Ops == { <<">">>, <<"<">>, <<">", "=">>, <<"<", "=">>, <<"=", "=">>,
         <<"!", "=">>, <<"=">>, <<"<", "<">>, <<>> }

\* stopping conditions a caller assigns to the run
StopChoices ==
    { << [attr |-> "turns", conds |-> <<Cond(<<">">>, 2)>>] >>,
      << [attr |-> "runtime_seconds", conds |-> <<Cond(<<">", "=">>, 1)>>] >> }

InitRun ==
    /\ run = NoRun
    /\ created = FALSE
    /\ createErr = ""
    /\ registry = {}
    /\ clock = 0
    /\ pc = "idle"
    /\ cur = make_state
    /\ g = make_state
    /\ done = {}
    /\ out = <<>>
    /\ fstate = make_state
    /\ path = ""
    /\ before = make_state
    /\ vres = NoneMsg
    /\ cancel = FALSE
    /\ late = FALSE
    /\ persist = <<>>
    /\ calls = [again |-> FALSE, resave |-> FALSE]

turnVars == <<cur, g, done, out, fstate, path, before, vres, cancel, late>>

\* RunManager.create, called through RunRegistry.create or through the
\* create_run route (whose registry.add does not exist on RunRegistry)
Create(loadOk, allowed, pcc, npcc, cfg, budget, via) ==
    /\ ~created
    /\ LET stage == CreateStage(loadOk, allowed, pcc, npcc, cfg) IN
       IF stage # "ok"
       THEN /\ createErr' = stage
            /\ UNCHANGED <<run, created, registry>>
       ELSE IF via = "route"
       THEN /\ createErr' = "AttributeError"
            /\ UNCHANGED <<run, created, registry>>
       ELSE /\ createErr' = "ok"
            /\ run' = NewRun(cfg, budget, clock, pcc, npcc)
            /\ created' = TRUE
            /\ registry' = IF via = "registry" THEN registry \cup {"run"} ELSE registry
    /\ UNCHANGED <<clock, pc, persist, calls, rt, cp, th, pl, fm>>
    /\ UNCHANGED turnVars

\* the caller replaces run.stopping_conditions before the first step
SetStoppingConditions(sc) ==
    /\ created /\ pc = "idle" /\ ~run.exited
    /\ run.stopping_conditions = DefaultStoppingConditions
    /\ run.state.lifecycle = "ENTER" /\ run.state.history = <<>>
    /\ run' = [run EXCEPT !.stopping_conditions = sc]
    /\ UNCHANGED <<created, createErr, registry, clock, pc, persist, calls>>
    /\ UNCHANGED turnVars

Tick ==
    /\ created /\ pc = "idle"
    /\ clock < MaxClock
    /\ clock' = clock + 1
    /\ UNCHANGED <<run, created, createErr, registry, pc, persist, calls, rt, cp, th, pl, fm>>
    /\ UNCHANGED turnVars

\* effect of one exit() call on the run, the collaborator and the bookkeeping
Exited(ex, cs, ps) ==
    [run |-> ex.run,
     raised |-> ex.raised,
     persist |-> IF ex.wrote THEN Append(ps, Snapshot(ex.run)) ELSE ps,
     calls |-> [again |-> cs.again \/ ex.again,
                resave |-> cs.resave \/ (ex.again /\ ex.saves > 0)]]

NotExited(r, cs, ps) == [run |-> r, raised |-> FALSE, persist |-> ps, calls |-> cs]

\* _ensure_stopping_conditions as called by step and play; an exception of
\* exit() is caught and logged inside the loop over the conditions (lines
\* 555-559), and leaves the method from the lifecycle branch (lines 512-517)
EnsureStop(r, cs, ps, now, ok) ==
    LET reason == StopCheck(r, now) IN
    IF reason # NoReason
    THEN LET e == Exited(exit(r, reason, now, ok), cs, ps) IN
         [e EXCEPT !.raised = e.raised /\ r.state.lifecycle = "EXIT"]
    ELSE NotExited(r, cs, ps)

\* the texts step() takes for a command: a leading "/" or "\"
IsCommand(inp) == inp.kind \in {"quit", "feedback", "command"}

\* step(), up to the point where the graph is invoked: the stopping check,
\* the commands, the exited guard, the staging of the input; `invoke` tells
\* whether the graph is invoked, with run.state as staged
StepPrologue(r, cs, ps, now, inp, ok) ==
    LET e1 == EnsureStop(r, cs, ps, now, ok) IN
    IF e1.raised
    THEN [run |-> e1.run, persist |-> e1.persist, calls |-> e1.calls,
          raised |-> TRUE, invoke |-> FALSE]
    ELSE IF inp.kind = "quit"
    THEN LET e2 == Exited(exit(e1.run, TextReason("received exit command"), now, ok),
                          e1.calls, e1.persist) IN
         [run |-> e2.run, persist |-> e2.persist, calls |-> e2.calls,
          raised |-> e2.raised, invoke |-> FALSE]
    ELSE IF inp.kind = "feedback"
    THEN [run |-> [e1.run EXCEPT !.state.special_user_message =
                                    SimulationMessage("info", "feedback")],
          persist |-> e1.persist, calls |-> e1.calls,
          raised |-> FALSE, invoke |-> FALSE]
    ELSE IF e1.run.exited
    THEN [run |-> e1.run, persist |-> e1.persist, calls |-> e1.calls,
          raised |-> FALSE, invoke |-> FALSE]
    ELSE [run |-> IF inp.kind = "none" THEN e1.run
                  ELSE [e1.run EXCEPT !.state.user_input = inp.msg],
          persist |-> e1.persist, calls |-> e1.calls,
          raised |-> FALSE, invoke |-> TRUE]

\* step() called by the owner of the run: the prologue, then the stream of
\* the turn starts from a copy of the staged State
StepBegin(inp, ok) ==
    /\ created /\ pc = "idle"
    /\ LET p == StepPrologue(run, calls, persist, clock, inp, ok) IN
       IF ~p.invoke
       THEN /\ run' = p.run /\ persist' = p.persist /\ calls' = p.calls
            /\ UNCHANGED pc /\ UNCHANGED turnVars
       ELSE /\ Len(p.run.state.history) + 2 <= MaxHist
            /\ cur' = p.run.state
            /\ before' = p.run.state
            /\ run' = [p.run EXCEPT !.state = ResetInternal(p.run.state)]
            /\ g' = ResetInternal(p.run.state)
            /\ persist' = p.persist /\ calls' = p.calls
            /\ pc' = "stream"
            /\ done' = {} /\ out' = <<>> /\ path' = "" /\ vres' = NoneMsg
            /\ cancel' = FALSE /\ late' = FALSE
            /\ UNCHANGED fstate
    /\ UNCHANGED <<created, createErr, registry, clock, rt, cp, th, pl, fm>>

\* the generator is finished: its locals and the graph's channels are gone
TurnOver ==
    /\ cur' = make_state
    /\ g' = make_state
    /\ done' = {}
    /\ cancel' = FALSE
    /\ late' = FALSE

\* the stream raised: the finally block yields final_state, the exception
\* then leaves stream, invoke and step; run.state is not replaced
TurnRaises ==
    /\ out' = StreamFinally(out, "raise")
    /\ fstate' = cur
    /\ path' = "raise"
    /\ pc' = "done"
    /\ TurnOver
    /\ UNCHANGED <<run, calls>>

\* the stream returned (early or at the end): final_state carries
\* current_state
TurnReturns(c, evs, p) ==
    /\ out' = StreamFinally(out \o evs, p)
    /\ fstate' = c
    /\ path' = p
    /\ pc' = "done"
    /\ TurnOver
    /\ UNCHANGED <<run, calls>>

\* the update of one node reaches the controller
NodeUpdate(node, upd, last) ==
    LET ob == Observe(cur, node, upd, cancel, late) IN
    IF ob.stop # "" THEN TurnReturns(ob.cur, ob.evs, ob.stop)
    ELSE IF last THEN TurnReturns(ob.cur, ob.evs, "normal")
    ELSE /\ cur' = ob.cur
         /\ out' = out \o ob.evs
         /\ g' = GraphMerge(g, upd)
         /\ done' = done \cup {node}
         /\ UNCHANGED <<run, fstate, path, pc, calls, cancel, late>>

ValidatorDone(reply) ==
    /\ pc = "stream" /\ VALIDATOR_NAME \notin done
    /\ LET res == validate_input(g, reply) IN
       IF res.raised THEN TurnRaises /\ UNCHANGED vres
       ELSE /\ NodeUpdate(VALIDATOR_NAME, res.patch, FALSE)
            /\ vres' = res.patch.validator_response
    /\ UNCHANGED <<created, createErr, registry, clock, before, persist, rt, cp, th, pl, fm>>

UpdaterDone(reply) ==
    /\ pc = "stream" /\ UPDATER_NAME \notin done
    /\ LET res == update_world(g, reply) IN
       IF res.raised THEN TurnRaises
       ELSE NodeUpdate(UPDATER_NAME, res.patch, FALSE)
    /\ UNCHANGED <<created, createErr, registry, clock, before, vres, persist, rt, cp, th, pl, fm>>

\* a finalizer triggered by the first worker to complete
FinalizeReadyAfterOne(d) == d # {} /\ FINALIZE_NAME \notin d

\* the edges validator -> finalize and updater -> finalize: both workers run
\* in the superstep that START triggers, finalize in the one after it
FinalizeReady(d) == d = {VALIDATOR_NAME, UPDATER_NAME}

FinalizeDone ==
    /\ pc = "stream" /\ FinalizeReady(done)
    /\ NodeUpdate(FINALIZE_NAME, finalize(g), FALSE)
    /\ UNCHANGED <<created, createErr, registry, clock, before, vres, persist, rt, cp, th, pl, fm>>

\* the parent graph streams the subgraph's output (its channel values) under
\* the subgraph's node name; the graph then reaches END
SubgraphDone ==
    /\ pc = "stream" /\ done = {VALIDATOR_NAME, UPDATER_NAME, FINALIZE_NAME}
    /\ NodeUpdate(SUBGRAPH_NAME, g, TRUE)
    /\ UNCHANGED <<created, createErr, registry, clock, before, vres, persist, rt, cp, th, pl, fm>>

\* graph.invoke drives the stream to its end and hands back the State of the
\* final_state event
invoke(final) == final

\* step(), after the graph: an exception leaves step with run.state as it
\* was staged; otherwise run.state is replaced by the new State
StepEnd ==
    /\ pc = "done"
    /\ run' = IF path = "raise" THEN run ELSE [run EXCEPT !.state = invoke(fstate)]
    /\ pc' = "idle"
    /\ out' = <<>> /\ fstate' = make_state /\ path' = "" /\ before' = make_state
    /\ vres' = NoneMsg
    /\ UNCHANGED <<created, createErr, registry, clock, cur, g, done, cancel, late,
                   persist, calls, rt, cp, th, pl, fm>>

SetCancel ==
    /\ pc = "stream" /\ ~cancel
    /\ cancel' = TRUE
    /\ UNCHANGED <<run, created, createErr, registry, clock, pc, cur, g, done, out,
                   fstate, path, before, vres, late, persist, calls, rt, cp, th, pl, fm>>

TimeoutPasses ==
    /\ pc = "stream" /\ ~late
    /\ late' = TRUE
    /\ UNCHANGED <<run, created, createErr, registry, clock, pc, cur, g, done, out,
                   fstate, path, before, vres, cancel, persist, calls, rt, cp, th, pl, fm>>

\* run.exit(reason) called by the owner of the run
ExitCall(reason, ok) ==
    /\ created /\ pc = "idle"
    /\ LET e == Exited(exit(run, TextReason(reason), clock, ok), calls, persist) IN
       /\ run' = e.run /\ persist' = e.persist /\ calls' = e.calls
    /\ UNCHANGED <<created, createErr, registry, clock, pc, rt, cp, th, pl, fm>>
    /\ UNCHANGED turnVars

\* play(), lines 422-427: the provider is interrupted; exit, then step("/stop")
PlayInterrupt(ok) ==
    /\ created /\ pc = "idle" /\ ~run.exited
    /\ LET e0 == Exited(exit(run, TextReason("user interrupted"), clock, ok), calls, persist) IN
       IF e0.raised
       THEN /\ run' = e0.run /\ persist' = e0.persist /\ calls' = e0.calls
       ELSE LET e1 == EnsureStop(e0.run, e0.calls, e0.persist, clock, ok)
                e2 == Exited(exit(e1.run, TextReason("received exit command"), clock, ok),
                             e1.calls, e1.persist)
            IN /\ run' = e2.run /\ persist' = e2.persist /\ calls' = e2.calls
    /\ UNCHANGED <<created, createErr, registry, clock, pc, rt, cp, th, pl, fm>>
    /\ UNCHANGED turnVars

\* the save route: run.save()
ApiSave(ok) ==
    /\ created /\ pc = "idle"
    /\ LET sv == save(run, ok) IN
       /\ run' = sv.run
       /\ persist' = IF sv.wrote THEN Append(persist, Snapshot(run)) ELSE persist
    /\ UNCHANGED <<created, createErr, registry, clock, pc, calls, rt, cp, th, pl, fm>>
    /\ UNCHANGED turnVars

----------------------------------------------------------------------------
(* Router and Expression Evaluator (core.py:607-622, conditions.py) *)

MaxClauses == 3     \* longest clause list explored
MaxEvents  == 1     \* longest history of the State being routed

\* routing expressions, by what eval() makes of their text
Exprs ==
    { [form |-> "empty", key |-> ""],                   \* ""
      [form |-> "len_messages_literal", key |-> "messages"],  \* "len(messages) == 0"
      [form |-> "bare_len_eq0", key |-> "events"],      \* "len(events)==0"
      [form |-> "item_len_eq0", key |-> "history"],     \* "len(state['history'])==0"
      [form |-> "item_len_eq0", key |-> "user_retry_budget"],  \* len() of an int
      [form |-> "call", key |-> "open"],                \* "open('x')"
      [form |-> "malformed", key |-> ""],               \* "state['history'] =="
      [form |-> "const", key |-> "true"],               \* "true"
      [form |-> "const", key |-> "false"] }             \* "{{ false }}"

\* names eval() can resolve: safe_locals and safe_globals
EvalNames == {"state", "len", "any", "all", "min", "max"}

\* eval(s, safe_globals, safe_locals), line 50: the truth of the value, or the
\* exception eval raises
EvalSource(e, s) ==
    CASE e.form = "const"        -> IF e.key = "true" THEN "True" ELSE "False"
      [] e.form = "bare_len_eq0" -> IF e.key \in EvalNames THEN "TypeError" ELSE "NameError"
      [] e.form = "item_len_eq0" -> IF e.key \notin DOMAIN s THEN "KeyError"
                                    ELSE IF e.key # "history" THEN "TypeError"
                                    ELSE IF Len(s[e.key]) = 0 THEN "True" ELSE "False"
      [] e.form = "attr_len_eq0" -> "AttributeError"    \* state is a dict
      [] e.form = "call"         -> IF e.key \in EvalNames THEN "TypeError" ELSE "NameError"
      [] e.form = "len_messages_literal" -> "NameError"
      [] OTHER                   -> "SyntaxError"

\* eval_condition with no try block around eval
eval_conditionNoCatch(e, s) ==
    IF e.form = "empty" THEN "False" ELSE EvalSource(e, s)

\* eval_condition: the truth of the expression's value, False for an empty
\* expression and on any exception of eval
eval_condition(e, s) ==
    IF e.form = "empty" THEN "False"
    ELSE LET r == EvalSource(e, s) IN
         IF r \in {"True", "False"} THEN r ELSE "False"

\* predicate: the inline forms, then eval_condition inside a try block of
\* its own
predicate(e, s) ==
    IF e.form = "empty" THEN "True"
    ELSE IF e.form = "len_messages_literal"
    THEN IF "messages" \in DOMAIN s /\ Len(s["messages"]) # 0 THEN "False" ELSE "True"
    ELSE LET r == eval_condition(e, s) IN
         IF r \in {"True", "False"} THEN r ELSE "False"

IfThen(e, d)  == [kind |-> "if", expr |-> e, dest |-> d]
ElseOnly(d)   == [kind |-> "else", expr |-> [form |-> "empty", key |-> ""], dest |-> d]

RECURSIVE routerLastMatch(_, _, _)
\* a router whose loop records the destination and goes on instead of
\* returning: the last matching clause wins
routerLastMatch(clauses, s, i) ==
    IF i > Len(clauses) THEN "__end__"
    ELSE LET later == routerLastMatch(clauses, s, i + 1) IN
         IF later # "__end__" THEN later
         ELSE IF clauses[i].kind = "if"
         THEN IF predicate(clauses[i].expr, s) = "True" THEN clauses[i].dest ELSE "__end__"
         ELSE clauses[i].dest

RECURSIVE router(_, _, _)
\* the router closure: clauses in declaration order from index i
router(clauses, s, i) ==
    IF i > Len(clauses) THEN "__end__"
    ELSE IF clauses[i].kind = "if"
    THEN LET p == predicate(clauses[i].expr, s) IN
         IF p = "True" THEN clauses[i].dest
         ELSE IF p = "False" THEN router(clauses, s, i + 1)
         ELSE "raised"     \* an exception of predicate leaves the router
    ELSE clauses[i].dest

\* compile, lines 134-157: the path_map handed to add_conditional_edges, from
\* what the router may return to the node it names; its keys are the clause
\* destinations and "__END__", which maps to langgraph's END ("__end__")
path_map(clauses) ==
    [k \in {clauses[i].dest : i \in DOMAIN clauses} \cup {"__END__"} |->
        IF k = "__END__" THEN "__end__" ELSE k]

Dests == {"A", "B"}

Clauses == {IfThen(e, d) : e \in Exprs, d \in Dests} \cup {ElseOnly(d) : d \in Dests}

ClauseLists == UNION {[1..n -> Clauses] : n \in 1..MaxClauses}

RoutedStates ==
    { [make_state EXCEPT !.history = h] :
        h \in UNION {[1..n -> {AIMessage("umsg")}] : n \in 0..MaxEvents} }

\* callers of step() on one run (the step route runs in a thread pool)
MaxCallers == 2
Callers == 1..MaxCallers

th0 == [t \in Callers |-> [pc |-> "idle", cur |-> make_state]]

pl0 == [stage |-> "off", input |-> "", last |-> "", fetched |-> FALSE, err |-> "",
        path |-> ""]

\* no form in the State (make_state: forms = None), the form node not run
fm0 == [defined |-> FALSE, questions |-> <<>>, lifecycle |-> "UPDATE",
        last |-> [node |-> "", before |-> <<>>, after |-> <<>>, recorded |-> FALSE,
                  result |-> "", asked |-> 0, patch |-> <<>>]]

rt0 == [clauses |-> <<ElseOnly("A")>>, state |-> make_state, dest |-> "", routed |-> FALSE]

cp0 == [node |-> CustomNode("openrouter", GoodTemplate), edge |-> "plain",
        stage |-> "config", result |-> "", budget |-> 0,
        reply |-> "", patch |-> EmptyPatch, after |-> make_state]

InitRouter ==
    /\ InitRun
    /\ cp = cp0
    /\ th = th0
    /\ pl = pl0
    /\ fm = fm0
    /\ \E cl \in ClauseLists, s \in RoutedStates :
          rt = [clauses |-> cl, state |-> s, dest |-> "", routed |-> FALSE]

\* the conditional edge is taken: langgraph calls the router with the State
Route ==
    /\ ~rt.routed
    /\ rt' = [rt EXCEPT !.dest = router(rt.clauses, rt.state, 1), !.routed = TRUE]
    /\ UNCHANGED runVars
    /\ UNCHANGED <<th, pl, fm>>
    /\ UNCHANGED cp

NextRouter == Route

SpecRouter == InitRouter /\ [][NextRouter]_vars

----------------------------------------------------------------------------
(* The compiler specification: a node is configured, compiled and run *)

RawNodes ==
    { CustomNode(p, t) : p \in {"", "openrouter", "huggingface"},
                         t \in Templates \cup {NoTemplate} }
    \cup
    { BuiltinNode(b, kw) : b \in {"update_state", "raise_error", "nosuch"},
                           kw \in {NoKwargs} \cup [key : {"lifecycle", "mood"},
                                                   val : {"plain", "template",
                                                          "undefined_attr"}] }

InitCompile ==
    /\ InitRun
    /\ rt = rt0
    /\ th = th0
    /\ pl = pl0
    /\ fm = fm0
    /\ \E n \in RawNodes, e \in EdgeKinds :
          cp = [cp0 EXCEPT !.node = n, !.edge = e]

\* GraphConfig is built from the document: every node is validated
LoadConfig ==
    /\ cp.stage = "config"
    /\ cp' = [cp EXCEPT !.stage = IF NodeValid(cp.node) THEN "loaded" ELSE "rejected"]
    /\ UNCHANGED runVars
    /\ UNCHANGED <<th, pl, fm>>
    /\ UNCHANGED rt

\* RunManager.create from the loaded configuration: the model clients, then
\* SimulationGraph.compile
Compile ==
    /\ cp.stage = "loaded"
    /\ cp' = [cp EXCEPT !.stage =
                 IF ContextRaises(cp.node) \/ compile([node |-> cp.node, edge |-> cp.edge]) # "ok"
                 THEN "failed" ELSE "compiled"]
    /\ UNCHANGED runVars
    /\ UNCHANGED <<th, pl, fm>>
    /\ UNCHANGED rt

\* a turn reaches the node (edges __START__ -> node -> __END__): node_fn runs
\* against the State of that turn and the graph merges the patch it returns
RunNode(budget, reply) ==
    LET s == [make_state EXCEPT !.user_retry_budget = budget, !.lifecycle = "UPDATE"]
        p == node_patch(cp.node, s, reply)
    IN  /\ cp.stage \in {"compiled", "ran"}
        /\ cp' = [cp EXCEPT !.stage = "ran",
                            !.node = node_after(cp.node, s, reply),
                            !.budget = budget,
                            !.reply = reply,
                            !.result = node_fn(cp.node, s, reply),
                            !.patch = p,
                            !.after = GraphMerge(s, p)]
        /\ UNCHANGED runVars
        /\ UNCHANGED <<th, pl, fm>>
        /\ UNCHANGED rt

NextCompile ==
    \/ LoadConfig
    \/ Compile
    \/ \E b \in 0..1, reply \in NodeReplies : RunNode(b, reply)

SpecCompile == InitCompile /\ [][NextCompile]_vars

----------------------------------------------------------------------------
(* The stopping-condition specification: a run with some turns behind it  *)
(* and one condition assigned, on which step() is called with a command   *)

\* single conditions <op><thr> on a numeric attribute of the run
StopConditions ==
    { << [attr |-> a, conds |-> <<Cond(o, t)>>] >> :
        a \in NumericAttrs, o \in Ops, t \in 0..MaxThr }

\* the history of a run after n turns played with no user input
Turns(n) == [i \in 1..n |-> AIMessage("umsg")]

InitStop ==
    /\ \E n \in 0..MaxHist, sc \in StopConditions :
          run = [NewRun(CHOOSE c \in RunConfigs : CreateStage(TRUE, TRUE, "None", "None", c) = "ok",
                        DefaultRetryBudget, 0, "None", "None")
                 EXCEPT !.state.history = Turns(n),
                        !.stopping_conditions = sc]
    /\ created = TRUE
    /\ createErr = "ok"
    /\ registry = {"run"}
    /\ clock \in 0..MaxClock
    /\ pc = "idle"
    /\ cur = make_state
    /\ g = make_state
    /\ done = {}
    /\ out = <<>>
    /\ fstate = make_state
    /\ path = ""
    /\ before = make_state
    /\ vres = NoneMsg
    /\ cancel = FALSE
    /\ late = FALSE
    /\ persist = <<>>
    /\ calls = [again |-> FALSE, resave |-> FALSE]
    /\ rt = rt0
    /\ cp = cp0
    /\ th = th0
    /\ pl = pl0
    /\ fm = fm0

NextStop == \E inp \in CommandInputs, ok \in BOOLEAN : StepBegin(inp, ok)

SpecStop == InitStop /\ [][NextStop]_vars

----------------------------------------------------------------------------
(* The game specification: a run is created from a game configuration that *)
(* declares a stopping condition, and step() is called with commands       *)

InitGame ==
    /\ InitRun
    /\ rt = rt0
    /\ cp = cp0
    /\ th = th0
    /\ pl = pl0
    /\ fm = fm0

\* RunManager.create from a game configuration whose stopping_conditions is
\* gsc: the declared conditions are logged; the run is built without them and
\* keeps the default_factory of its own field
CreateFromGame(gsc) ==
    /\ ~created
    /\ createErr' = "ok"
    /\ run' = [NewRun(CHOOSE c \in RunConfigs : CreateStage(TRUE, TRUE, "None", "None", c) = "ok",
                      DefaultRetryBudget, clock, "None", "None")
               EXCEPT !.game_stopping_conditions = gsc]
    /\ created' = TRUE
    /\ registry' = registry \cup {"run"}
    /\ UNCHANGED <<clock, pc, persist, calls, rt, cp, th, pl, fm>>
    /\ UNCHANGED turnVars

NextGame ==
    \/ \E gsc \in StopConditions : CreateFromGame(gsc)
    \/ Tick
    \/ \E inp \in CommandInputs, ok \in BOOLEAN : StepBegin(inp, ok)

SpecGame == InitGame /\ [][NextGame]_vars

----------------------------------------------------------------------------
(* The callers specification: step() called on one run by several callers *)
(* (the step route is a plain function, which the server runs in a thread  *)
(* pool; RunManager and RunRegistry hold no lock)                          *)

\* the exception a subgraph node raises on a reply that gives it no patch: the
\* failed invocation is re-raised as RuntimeError; with no parseable JSON
\* object state_updates is never bound, and the log line that formats it
\* raises UnboundLocalError
NodeError(reply) == IF reply = "invoke_error" THEN "RuntimeError" ELSE "UnboundLocalError"

\* a turn run to its end, with no cancellation and no timeout, the
\* validator's update reaching the controller first: it raises, or it
\* returns the State of final_state
TurnFinal(s, vreply, ureply) ==
    LET g0 == ResetInternal(s)
        v  == validate_input(g0, vreply)
    IN
    IF v.raised
    THEN [raised |-> TRUE, state |-> s, error |-> NodeError(vreply), path |-> "raise"]
    ELSE LET o1 == Observe(s, VALIDATOR_NAME, v.patch, FALSE, FALSE) IN
         IF o1.stop # ""
         THEN [raised |-> FALSE, state |-> o1.cur, error |-> "", path |-> o1.stop]
         ELSE LET u == update_world(g0, ureply) IN
              IF u.raised
              THEN [raised |-> TRUE, state |-> o1.cur, error |-> NodeError(ureply),
                    path |-> "raise"]
              ELSE LET g2 == GraphMerge(GraphMerge(g0, v.patch), u.patch)
                       f  == finalize(g2)
                       o2 == Observe(o1.cur, UPDATER_NAME, u.patch, FALSE, FALSE)
                       o3 == Observe(o2.cur, FINALIZE_NAME, f, FALSE, FALSE)
                       o4 == Observe(o3.cur, SUBGRAPH_NAME, GraphMerge(g2, f), FALSE, FALSE)
                   IN [raised |-> FALSE, state |-> o4.cur, error |-> "", path |-> "normal"]

\* a created run, with nothing in progress
InitCreated(r) ==
    /\ run = r
    /\ created = TRUE
    /\ createErr = "ok"
    /\ registry = {"run"}
    /\ clock = 0
    /\ pc = "idle"
    /\ cur = make_state
    /\ g = make_state
    /\ done = {}
    /\ out = <<>>
    /\ fstate = make_state
    /\ path = ""
    /\ before = make_state
    /\ vres = NoneMsg
    /\ cancel = FALSE
    /\ late = FALSE
    /\ persist = <<>>
    /\ calls = [again |-> FALSE, resave |-> FALSE]
    /\ rt = rt0
    /\ cp = cp0

GoodConfig == CHOOSE c \in RunConfigs : CreateStage(TRUE, TRUE, "None", "None", c) = "ok"

InitCallers ==
    /\ \E b \in 0..MaxBudget : InitCreated(NewRun(GoodConfig, b, 0, "None", "None"))
    /\ th = th0
    /\ pl = pl0
    /\ fm = fm0

\* caller t enters step(): the prologue on the shared run and, when the graph
\* is invoked, the copy of the State from which its stream starts
CallStep(t, inp, ok) ==
    /\ th[t].pc = "idle"
    /\ LET p == StepPrologue(run, calls, persist, clock, inp, ok) IN
       /\ p.invoke => Len(p.run.state.history) + 2 <= MaxHist
       /\ run' = IF p.invoke THEN [p.run EXCEPT !.state = ResetInternal(p.run.state)]
                 ELSE p.run
       /\ persist' = p.persist
       /\ calls' = p.calls
       /\ th' = IF p.invoke
                THEN [th EXCEPT ![t] = [pc |-> "invoking", cur |-> p.run.state]]
                ELSE th
    /\ UNCHANGED <<created, createErr, registry, clock, pc, rt, cp, pl, fm>>
    /\ UNCHANGED turnVars

\* the graph invocation of caller t ends: step() replaces run.state with the
\* new State, or the exception leaves step
ReturnStep(t, vreply, ureply) ==
    /\ th[t].pc = "invoking"
    /\ LET o == TurnFinal(th[t].cur, vreply, ureply) IN
       run' = IF o.raised THEN run ELSE [run EXCEPT !.state = invoke(o.state)]
    /\ th' = [th EXCEPT ![t] = [pc |-> "idle", cur |-> make_state]]
    /\ UNCHANGED <<created, createErr, registry, clock, pc, persist, calls, rt, cp, pl, fm>>
    /\ UNCHANGED turnVars

NextCallers ==
    \/ \E t \in Callers, inp \in StepInputs, ok \in BOOLEAN : CallStep(t, inp, ok)
    \/ \E t \in Callers, vreply \in ValidatorReplies, ureply \in UpdaterReplies :
          ReturnStep(t, vreply, ureply)

SpecCallers == InitCallers /\ [][NextCallers]_vars

----------------------------------------------------------------------------
(* The play specification: RunManager.play on a created run whose State    *)
(* may have been seeded through state_overrides                            *)

\* BaseMessage.type of a committed message: "human" for a HumanMessage, "ai"
\* for an AIMessage
MessageType(m) == m.role

\* the histories a run starts play with
PlayHistories ==
    UNION {[1..n -> {HumanMessage("act"), AIMessage("umsg")}] : n \in 0..MaxEvents}

\* the user_input step() is called with, by what play chose
PlayInput(i) ==
    CASE i = "text" -> [kind |-> "text", msg |-> TextMsg(MAX_USER_INPUT_LENGTH, FALSE)]
      [] i = "stop" -> [kind |-> "quit", msg |-> NoneMsg]
      [] OTHER      -> [kind |-> "none", msg |-> NoneMsg]

\* the budgets a run starts play with: one more than the last retry, so that
\* a rejection which leaves a retry occurs
PlayBudgets == 0..(MaxBudget + 1)

InitPlay ==
    /\ \E b \in PlayBudgets, h \in PlayHistories :
          InitCreated([NewRun(GoodConfig, b, 0, "None", "None") EXCEPT !.state.history = h])
    /\ th = th0
    /\ pl = [pl0 EXCEPT !.stage = "top"]
    /\ fm = fm0

\* the head of the loop and the try block (lines 402-427): the stopping
\* check, then the choice of user_text from the last event; `interrupt`
\* tells whether the provider raises EOFError / KeyboardInterrupt
PlayTop(interrupt, ok) ==
    /\ pl.stage = "top"
    /\ IF run.exited
       THEN /\ pl' = [pl EXCEPT !.stage = "returned"]
            /\ UNCHANGED <<run, persist, calls>>
       ELSE LET e1 == EnsureStop(run, calls, persist, clock, ok)
                events == e1.run.state.history
                last == IF events = <<>> THEN "empty"
                        ELSE MessageType(events[Len(events)])
            IN
            IF e1.raised
            THEN /\ run' = e1.run /\ persist' = e1.persist /\ calls' = e1.calls
                 /\ pl' = [pl0 EXCEPT !.stage = "raised", !.err = "save"]
            ELSE IF last = "empty" \/ last = "user"
            THEN /\ run' = e1.run /\ persist' = e1.persist /\ calls' = e1.calls
                 /\ pl' = [pl0 EXCEPT !.stage = "step", !.input = "none", !.last = last]
            ELSE IF last = "ai" /\ ~interrupt
            THEN /\ run' = e1.run /\ persist' = e1.persist /\ calls' = e1.calls
                 /\ pl' = [pl0 EXCEPT !.stage = "step", !.input = "text", !.last = last,
                                      !.fetched = TRUE]
            ELSE IF last = "ai"
            THEN LET e2 == Exited(exit(e1.run, TextReason("user interrupted"), clock, ok),
                                  e1.calls, e1.persist) IN
                 /\ run' = e2.run /\ persist' = e2.persist /\ calls' = e2.calls
                 /\ pl' = IF e2.raised
                          THEN [pl0 EXCEPT !.stage = "raised", !.err = "save", !.last = last,
                                           !.fetched = TRUE]
                          ELSE [pl0 EXCEPT !.stage = "step", !.input = "stop", !.last = last,
                                           !.fetched = TRUE]
            ELSE /\ run' = e1.run /\ persist' = e1.persist /\ calls' = e1.calls
                 /\ pl' = [pl0 EXCEPT !.stage = "raised", !.err = "ValueError", !.last = last]
    /\ UNCHANGED <<created, createErr, registry, clock, pc, rt, cp, th, fm>>
    /\ UNCHANGED turnVars

\* lines 429-432: self.step(user_text), then the test of self.exited
PlayStep(vreply, ureply, ok) ==
    /\ pl.stage = "step"
    /\ LET p == StepPrologue(run, calls, persist, clock, PlayInput(pl.input), ok)
           o == TurnFinal(p.run.state, vreply, ureply)
           r == IF ~p.invoke \/ o.raised THEN p.run
                ELSE [p.run EXCEPT !.state = invoke(o.state)]
       IN
       /\ p.invoke => Len(p.run.state.history) + 2 <= MaxHist
       /\ run' = r /\ persist' = p.persist /\ calls' = p.calls
       /\ pl' = IF p.raised THEN [pl EXCEPT !.stage = "raised", !.err = "save"]
                ELSE IF p.invoke /\ o.raised
                THEN [pl EXCEPT !.stage = "raised", !.err = o.error, !.path = o.path]
                ELSE IF r.exited THEN [pl EXCEPT !.stage = "returned"]
                ELSE [pl EXCEPT !.stage = "top", !.path = IF p.invoke THEN o.path ELSE ""]
    /\ UNCHANGED <<created, createErr, registry, clock, pc, rt, cp, th, fm>>
    /\ UNCHANGED turnVars

NextPlay ==
    \/ \E interrupt \in BOOLEAN, ok \in BOOLEAN : PlayTop(interrupt, ok)
    \/ \E vreply \in ValidatorReplies, ureply \in UpdaterReplies, ok \in BOOLEAN :
          PlayStep(vreply, ureply, ok)
    \/ Tick

SpecPlay == InitPlay /\ [][NextPlay]_vars

----------------------------------------------------------------------------
(* The finalizer specification: finalize called on a State of the subgraph *)
(* and its patch merged into the channels                                  *)

InitFinalize ==
    /\ run = NewRun(GoodConfig, DefaultRetryBudget, 0, "None", "None")
    /\ created = TRUE /\ createErr = "ok" /\ registry = {"run"}
    /\ clock = 0 /\ pc = "idle"
    /\ cur = make_state /\ g = make_state /\ fstate = make_state
    /\ done = {} /\ out = <<>> /\ path = "" /\ vres = NoneMsg
    /\ cancel = FALSE /\ late = FALSE
    /\ persist = <<>> /\ calls = [again |-> FALSE, resave |-> FALSE]
    /\ rt = rt0 /\ cp = cp0
    /\ \E h \in PlayHistories, b \in 0..MaxBudget,
          ui \in {NoneMsg, TextMsg(MAX_USER_INPUT_LENGTH, FALSE)},
          v \in {NoneMsg} \cup
                {validate_input([make_state EXCEPT
                                    !.user_input = TextMsg(MAX_USER_INPUT_LENGTH, FALSE)],
                                r).patch.validator_response : r \in {"info", "error"}},
          u \in {NoneMsg, update_world(make_state, "ai").patch.updater_response} :
          before = [make_state EXCEPT !.lifecycle = "UPDATE",
                                      !.history = h,
                                      !.user_retry_budget = b,
                                      !.user_input = ui,
                                      !.validator_response = v,
                                      !.updater_response = u]
    /\ th = th0
    /\ pl = pl0
    /\ fm = fm0

\* the finalize node runs on the channels and the graph merges its patch
Finalize ==
    /\ done = {}
    /\ done' = {FINALIZE_NAME}
    /\ fstate' = GraphMerge(before, finalize(before))
    /\ UNCHANGED <<run, created, createErr, registry, clock, pc, cur, g, out, path,
                   before, vres, cancel, late, persist, calls, rt, cp, th, pl, fm>>

NextFinalize == Finalize

SpecFinalize == InitFinalize /\ [][NextFinalize]_vars

----------------------------------------------------------------------------
(* The form specification: turns through a builtin.form node on a State    *)
(* that holds one form                                                     *)

InitForm ==
    /\ run = NewRun(GoodConfig, DefaultRetryBudget, 0, "None", "None")
    /\ created = TRUE /\ createErr = "ok" /\ registry = {"run"}
    /\ clock = 0 /\ pc = "idle"
    /\ cur = make_state /\ g = make_state /\ fstate = make_state
    /\ before = make_state
    /\ done = {} /\ out = <<>> /\ path = "" /\ vres = NoneMsg
    /\ cancel = FALSE /\ late = FALSE
    /\ persist = <<>> /\ calls = [again |-> FALSE, resave |-> FALSE]
    /\ rt = rt0 /\ cp = cp0 /\ th = th0 /\ pl = pl0
    /\ \/ fm = fm0
       \/ \E q \in UNION {[1..n -> {"", "old"}] : n \in 0..MaxQuestions} :
             fm = [fm0 EXCEPT !.defined = TRUE, !.questions = q]

\* one turn through the form node with the pending message d: the node runs
\* on the State, the graph merges the patch it returns
FormTurn(d) ==
    /\ fm.lifecycle # "EXIT"
    /\ LET r == form(fm.defined, fm.questions, d) IN
       fm' = [defined |-> fm.defined,
              questions |-> IF r.raised THEN r.questions ELSE r.patch,
              lifecycle |-> IF r.result = "EXIT" THEN "EXIT" ELSE fm.lifecycle,
              last |-> [node |-> "form", before |-> fm.questions, after |-> r.questions,
                        recorded |-> r.recorded, result |-> r.result,
                        asked |-> r.asked, patch |-> r.patch]]
    /\ UNCHANGED <<run, created, createErr, registry, clock, pc, cur, g, done, out,
                   fstate, path, before, vres, cancel, late, persist, calls, rt, cp,
                   th, pl>>

NextForm ==
    \E d \in {NoneMsg, TextMsg(MAX_USER_INPUT_LENGTH, FALSE),
               TextMsg(MAX_USER_INPUT_LENGTH, TRUE), SimulationMessage("user", "yes"),
               SimulationMessage("user", "no"),
               SimulationMessage("ai", "umsg")} :
        FormTurn(d)

SpecForm == InitForm /\ [][NextForm]_vars

----------------------------------------------------------------------------
(* The run specification *)

Init == InitRun /\ rt = rt0 /\ cp = cp0 /\ th = th0 /\ pl = pl0 /\ fm = fm0

Next ==
    \/ \E loadOk \in BOOLEAN, allowed \in BOOLEAN, pcc \in PcChoices, npcc \in NpcChoices,
          cfg \in RunConfigs, budget \in 0..MaxBudget, via \in {"registry", "route"} :
          Create(loadOk, allowed, pcc, npcc, cfg, budget, via)
    \/ \E sc \in StopChoices : SetStoppingConditions(sc) /\ UNCHANGED <<rt, cp, th, pl, fm>>
    \/ Tick
    \/ \E inp \in StepInputs, ok \in BOOLEAN : StepBegin(inp, ok)
    \/ \E reply \in ValidatorReplies : ValidatorDone(reply)
    \/ \E reply \in UpdaterReplies : UpdaterDone(reply)
    \/ FinalizeDone
    \/ SubgraphDone
    \/ StepEnd
    \/ SetCancel
    \/ TimeoutPasses
    \/ \E ok \in BOOLEAN : ExitCall("unit test stop", ok)
    \/ \E ok \in BOOLEAN : PlayInterrupt(ok)
    \/ \E ok \in BOOLEAN : ApiSave(ok)

Spec == Init /\ [][Next]_vars

----------------------------------------------------------------------------
(* Properties of the Streaming Controller *)

FinalStateCount(o) == Cardinality({i \in DOMAIN o : o[i].type = "final_state"})

\* C1: on every exit path of a turn (normal, cancel, timeout, validator
\* rejection, exception in a node) the events yielded by stream contain
\* exactly one final_state event and it is the last one; while the turn is
\* still streaming none has been yielded
C1_FinalStateOnceAndLast ==
    /\ pc = "done" =>
          /\ path \in {"normal", "cancel", "timeout", "reject", "raise"}
          /\ out # <<>>
          /\ out[Len(out)].type = "final_state"
          /\ FinalStateCount(out) = 1
    /\ pc = "stream" => FinalStateCount(out) = 0

\* a turn that ended by an exception raised in a node, after an event was
\* already yielded
C1_Witness ==
    /\ pc = "done" /\ path = "raise"
    /\ Len(out) >= 1 /\ out[Len(out)].type = "final_state"

\* C2: when the validator's result of the turn has type "error", the history
\* of the State carried by final_state is as long as the history the turn
\* started with, whichever of validator and updater completed first
C2_RejectedTurnKeepsHistory ==
    (pc = "done" /\ vres.type = "error") =>
        Len(fstate.history) = Len(before.history)

\* a rejected turn in which the updater completed before the validator
C2_Witness ==
    /\ pc = "done" /\ vres.type = "error" /\ path = "reject"
    /\ ~IsNone(fstate.updater_response)
    /\ IsNone(before.updater_response)

\* C3: a run started with user_retry_budget = 1 tolerates its first
\* validator rejection: that turn does not force lifecycle EXIT
C3_FirstRejectionTolerated ==
    (/\ pc = "done" /\ path = "reject"
     /\ run.budget0 = 1
     /\ before.user_retry_budget = run.budget0)
    => fstate.lifecycle # "EXIT"

----------------------------------------------------------------------------
(* Properties of the Run State Machine *)

RelationalOps == { <<">">>, <<"<">>, <<">", "=">>, <<"<", "=">>, <<"=", "=">>, <<"!", "=">> }

\* what <value><operator><threshold> means
Compare(v, c) ==
    \/ c.op = <<">">> /\ v > c.thr
    \/ c.op = <<"<">> /\ v < c.thr
    \/ c.op = <<">", "=">> /\ v >= c.thr
    \/ c.op = <<"<", "=">> /\ v <= c.thr
    \/ c.op = <<"=", "=">> /\ v = c.thr
    \/ c.op = <<"!", "=">> /\ v # c.thr

AllRelational(r) ==
    \A k \in DOMAIN r.stopping_conditions :
        \A i \in DOMAIN r.stopping_conditions[k].conds :
            r.stopping_conditions[k].conds[i].op \in RelationalOps

StopMet(r, now) ==
    \E k \in DOMAIN r.stopping_conditions :
        \E i \in DOMAIN r.stopping_conditions[k].conds :
            Compare(AttrValue(r, r.stopping_conditions[k].attr, now),
                    r.stopping_conditions[k].conds[i])

\* C4: for a run that has not exited and whose conditions are numeric
\* comparisons, the stopping-condition check of a step exits the run exactly
\* when <value><operator><threshold> is true of some condition, and the
\* exit_reason names the attribute and the condition that held (with
\* turns > 2 and 3 turns recorded: a reason that mentions turns)
C4_StopsExactlyWhenConditionTrue ==
    [][ (/\ created /\ pc = "idle"
         /\ ~run.exited /\ run.state.lifecycle # "EXIT"
         /\ AllRelational(run))
        =>
        LET stopped == run'.exited /\ run'.exit_reason.kind = "stopping condition met" IN
        /\ stopped <=> StopMet(run, clock)
        /\ stopped =>
              /\ \E k \in DOMAIN run.stopping_conditions :
                    run.stopping_conditions[k].attr = run'.exit_reason.attr
              /\ Compare(AttrValue(run, run'.exit_reason.attr, clock),
                         Cond(run'.exit_reason.op, run'.exit_reason.thr)) ]_vars

\* the run with turns > 2 and 3 turns recorded was exited by _ensure_stopping_conditions
C4_Witness ==
    /\ run.exited
    /\ run.stopping_conditions = << [attr |-> "turns", conds |-> <<Cond(<<">">>, 2)>>] >>
    /\ turns(run) = 3
    /\ run.exit_reason = StopReason("turns", Cond(<<">">>, 2))

\* C5: once a run has exited, no later exit call (a direct exit, the /stop
\* play issues after an interrupt, the exit of a later stopping-condition
\* check) changes exit_reason or the end timestamp, and none calls save
C5_ExitIdempotent ==
    /\ [](~calls.resave)
    /\ [][ run.exited =>
              /\ run'.exited
              /\ run'.exit_reason = run.exit_reason
              /\ run'.end_ts = run.end_ts ]_vars

\* exit was called again on an exited run, at a later time
C5_Witness ==
    /\ run.exited /\ calls.again
    /\ run.end_ts < clock

\* C10: a run exists only after every stage of create succeeded (its graph
\* compiles, its characters are valid ones); a create that failed at load,
\* access, characters or compile left no run and registered nothing; only
\* created runs are registered
C10_CreateAllOrNothing ==
    /\ created =>
          /\ createErr = "ok"
          /\ compile(run.cfg) = "ok"
          /\ run.pc \in ValidPcs /\ run.npc \in ValidNpcs
    /\ createErr \in {"load", "access", "characters", "context", "compile"} =>
          /\ ~created
          /\ run = NoRun
          /\ registry = {}
    /\ registry # {} => created

\* a create that failed at graph compilation
C10_Witness == createErr = "compile" /\ ~created /\ registry = {}

----------------------------------------------------------------------------
(* Properties of the Router *)

FirstIndex(S) == CHOOSE i \in S : \A j \in S : i <= j

TruthyIfs(cl, s) ==
    {i \in DOMAIN cl : cl[i].kind = "if" /\ predicate(cl[i].expr, s) = "True"}

Elses(cl) == {i \in DOMAIN cl : cl[i].kind = "else"}

\* the destination of the first truthy `if` of the list; the `else`
\* destination, or end-of-turn, only when no `if` is truthy
FirstTruthyIfOrElse(cl, s) ==
    IF TruthyIfs(cl, s) # {} THEN cl[FirstIndex(TruthyIfs(cl, s))].dest
    ELSE IF Elses(cl) # {} THEN cl[FirstIndex(Elses(cl))].dest
    ELSE "__end__"

\* C6, as stated: wherever the `else` stands, the router chooses the first
\* truthy `if`, and the `else` (or end-of-turn) only when no `if` is truthy
C6_FirstTruthyIfWherever ==
    rt.routed => rt.dest = FirstTruthyIfOrElse(rt.clauses, rt.state)

NoElseBeforeFirstTruthyIf(cl, s) ==
    \A i \in TruthyIfs(cl, s) : \A j \in Elses(cl) :
        i = FirstIndex(TruthyIfs(cl, s)) => i < j

\* C6, amended: when no `else` stands before the first truthy `if`, the
\* router chooses the first truthy `if`, and the `else` (or end-of-turn)
\* only when no `if` is truthy
C6_FirstTruthyIfUnlessElseEarlier ==
    (rt.routed /\ NoElseBeforeFirstTruthyIf(rt.clauses, rt.state))
    => rt.dest = FirstTruthyIfOrElse(rt.clauses, rt.state)

\* a falsy `if`, then a truthy `if` that was chosen over a later truthy `if`
\* and a later `else` with other destinations
C6_Witness ==
    /\ rt.routed /\ Len(rt.clauses) = 3
    /\ rt.clauses[1].kind = "if" /\ predicate(rt.clauses[1].expr, rt.state) = "False"
    /\ rt.clauses[2].kind = "if" /\ predicate(rt.clauses[2].expr, rt.state) = "True"
    /\ rt.clauses[3].kind = "else" /\ rt.clauses[3].dest # rt.clauses[2].dest
    /\ rt.dest = rt.clauses[2].dest

LenEventsIsZero == [form |-> "bare_len_eq0", key |-> "events"]

\* C7: the edge [{if: "len(events)==0", then: A}, {else: B}] routes to A when
\* the State's events are empty and to B when it holds one event
C7_LenEventsScenario ==
    (rt.routed /\ rt.clauses = <<IfThen(LenEventsIsZero, "A"), ElseOnly("B")>>)
    => rt.dest = (IF rt.state.history = <<>> THEN "A" ELSE "B")

----------------------------------------------------------------------------
(* Properties of the Graph Compiler *)

\* the template holds an `Output Format: {...}` block: the marker, optional
\* whitespace, an opening brace and, somewhere after it, a closing brace
HasOutputFormatBlock(t) ==
    \E i \in DOMAIN t, j \in DOMAIN t, k \in DOMAIN t :
        /\ i < j /\ j < k
        /\ t[i] = "OF" /\ t[j] = "{" /\ t[k] = "}"
        /\ \A m \in (i + 1)..(j - 1) : t[m] = "ws"

Compiled == cp.stage \in {"compiled", "ran"}

\* C8: for a custom node the configuration accepts, compilation fails when
\* the system_template lacks the Output Format block, and succeeds when it
\* has the block and all else is valid (the template renders, the provider
\* is supported, the edge is well-formed)
C8_OutputFormatContract ==
    (cp.stage \in {"failed", "compiled", "ran"} /\ cp.node.kind = "custom") =>
        /\ ~HasOutputFormatBlock(cp.node.system_template.toks) => cp.stage = "failed"
        /\ (/\ HasOutputFormatBlock(cp.node.system_template.toks)
            /\ cp.node.system_template.jinja = "plain"
            /\ cp.node.provider = "openrouter"
            /\ ~EdgeRaises(cp.edge)) => Compiled

\* a custom node, valid in everything else, whose template names the output
\* format but never closes the brace: compilation failed
C8_Witness ==
    /\ cp.stage = "failed" /\ cp.node.kind = "custom"
    /\ cp.node.system_template = [jinja |-> "plain", toks |-> <<"OF", "ws", "{">>]
    /\ cp.node.provider = "openrouter" /\ ~EdgeRaises(cp.edge)

\* C9: when compile succeeded for a configuration, no turn of a run built
\* from it fails with a configuration error
C9_NoConfigErrorAtRuntime ==
    cp.stage = "ran" => cp.result \notin ConfigErrors

----------------------------------------------------------------------------
(* Properties of a custom node's turn *)

----------------------------------------------------------------------------
(* Properties of the State across a turn *)

IsPrefix(a, b) == Len(a) <= Len(b) /\ SubSeq(b, 1, Len(a)) = a

\* C12: events only grows: whatever the exit path of a turn, the State
\* carried by its final_state holds the events held before the turn as a
\* prefix of its events
C12_EventsOnlyGrow ==
    pc = "done" => IsPrefix(before.history, fstate.history)

----------------------------------------------------------------------------
(* Properties of the lifecycle and of the scheduling of turns *)

Terminal == {"EXIT", "COMPLETE"}

Invoking == {t \in Callers : th[t].pc = "invoking"}

\* C13: no transition leaves a terminal state: once the lifecycle of the run
\* is EXIT or COMPLETE, no later step, command or node update changes it to
\* another value, and no further graph turn is started for the run
C13_TerminalIsFinal ==
    [][ run.state.lifecycle \in Terminal =>
            /\ run'.state.lifecycle = run.state.lifecycle
            /\ Invoking' \subseteq Invoking ]_vars

\* C14: the lifecycle only follows INIT -> ENTER -> UPDATE -> EXIT|COMPLETE:
\* create hands out a run in ENTER, a step whose turn ran to its end on a
\* run in ENTER leaves it in UPDATE (or a terminal state), and later steps
\* keep UPDATE until a terminal state is reached
C14_LifecycleOrder ==
    [][ /\ (~created /\ created') => run'.state.lifecycle = "ENTER"
        /\ (pc = "done" /\ pc' = "idle" /\ path = "normal") =>
               run'.state.lifecycle \in {"UPDATE"} \cup Terminal
        /\ (created /\ run.state.lifecycle = "UPDATE") =>
               run'.state.lifecycle \in {"UPDATE"} \cup Terminal ]_vars

\* C15: no two turns of the same run execute concurrently: whatever the
\* interleaving of step calls on one run, at most one graph invocation of
\* the run is in progress at a time
C15_OneTurnAtATime == Cardinality(Invoking) <= 1

----------------------------------------------------------------------------
(* Properties of step() *)

\* the graph is being invoked on a command token staged as the user action
InvokedOnCommand ==
    pc = "stream" /\ ~IsNone(cur.user_input) /\ cur.user_input = CommandMsg("/save")

\* C16: step(input) with a command token (leading "/") is handled locally and
\* never invokes the graph
C16_CommandsNeverInvoke == ~InvokedOnCommand

\* C17: play alternates: in each iteration the provider is asked for a new
\* input exactly when the last event is from the simulated agent, the run is
\* advanced with no input when the last event is from the user or there is
\* no event yet, and the loop stops once the lifecycle is EXIT
C17_PlayAlternates ==
    /\ [](pl.last # "" =>
            /\ pl.fetched <=> pl.last = "ai"
            /\ pl.last \in {"empty", "human"} =>
                   pl.err # "ValueError" /\ pl.input = "none")
    /\ [][ (pl.stage = "step" /\ run.state.lifecycle = "EXIT" /\ pl' # pl) =>
               pl'.stage = "returned" ]_vars

\* C18: stopping conditions are evaluated after every step, first match in
\* map order wins: when a step returns from its turn and the resulting run
\* satisfies some stopping condition, the run is already exited and its
\* exit_reason names the first satisfied condition in map order
C18_StopCheckedAfterStep ==
    [][ (pc = "done" /\ pc' = "idle" /\ AllRelational(run') /\ StopMet(run', clock')) =>
            /\ run'.exited
            /\ run'.exit_reason = FirstStop(run', clock', 1) ]_vars

----------------------------------------------------------------------------
(* Properties of exit and of the persistence collaborator *)

\* C19: after run.exit(reason) on a run that had not exited, whatever came
\* before it (steps, commands, an earlier save), the run is marked exited,
\* its exit_reason is the reason, and the persisted run record carries that
\* exit_reason; taken for the exits whose save did not fail
C19_ExitIsPersisted ==
    [][ (~run.exited /\ run'.exited /\ ~(~run.saved /\ ~run'.saved)) =>
            /\ run'.exit_reason # NoReason
            /\ persist' # <<>>
            /\ persist'[Len(persist')].exit_reason = run'.exit_reason ]_vars

\* C20: a failure of the persistence collaborator during exit never blocks
\* exit: no exit call of play (the stopping check, the interrupt, the /stop
\* step) raises because the save failed, and the exited run has its reason
\* and its end timestamp recorded
C20_SaveFailureNeverBlocksExit ==
    /\ pl.err # "save"
    /\ run.exited => (run.exit_reason # NoReason /\ run.end_ts >= run.start_ts)

\* C21: the persistence collaborator is invoked only on run exit: every
\* snapshot it has received is the snapshot of an exited run
C21_PersistOnlyOnExit ==
    \A i \in DOMAIN persist : persist[i].exited

----------------------------------------------------------------------------
(* Properties of the error taxonomy *)

\* C22: a model response with no extractable or parseable JSON object never
\* crashes the turn: for the subgraph's validator or updater it degrades to
\* an error-typed subgraph message, so no step of play is left by the
\* exception of an unbound patch
C22_NoJsonNeverCrashes == pl.err # "UnboundLocalError"

\* C23: a validator rejection observed by the controller decrements
\* user_retry_budget by exactly one; it forces lifecycle EXIT if and only if
\* the budget is exhausted by it, and otherwise the lifecycle is unchanged
\* and play goes on to its next turn
C23_RejectionCostsOneRetry ==
    [][(pl.stage = "step" /\ pl'.path = "reject") =>
          /\ run'.state.user_retry_budget = run.state.user_retry_budget - 1
          /\ (run'.state.lifecycle = "EXIT") <=> (run'.state.user_retry_budget <= 0)
          /\ run'.state.user_retry_budget > 0 =>
                /\ run'.state.lifecycle = run.state.lifecycle
                /\ ~run'.exited
                /\ pl'.stage = "top"]_vars

\* a rejection that left a retry: play is back at the head of its loop
C23_Witness ==
    /\ pl.stage = "top" /\ pl.path = "reject"
    /\ run.state.user_retry_budget > 0
    /\ run.state.lifecycle # "EXIT"

----------------------------------------------------------------------------
(* Properties of the Streaming Controller's checks *)

\* C24: after every node completion the controller checks cancellation, then
\* the time budget, then validator failure, then normal output: a turn that
\* ended as rejected or normal saw neither signal, a turn that ended on the
\* time budget saw no cancellation; and when a signal is set at the
\* completion of a validator that reports an error, the turn yields only the
\* cancelled notice (the timeout error) followed by final_state, with
\* user_retry_budget and lifecycle as the turn found them
C24_ChecksInPriorityOrder ==
    [][(pc = "stream" /\ pc' = "done") =>
          /\ path' \in {"reject", "normal"} => ~cancel /\ ~late
          /\ path' = "timeout" => ~cancel /\ late
          /\ path' = "cancel" => cancel
          /\ (vres'.type = "error" /\ path' \in {"cancel", "timeout"}) =>
                /\ out' = << IF path' = "cancel" THEN Event("info", "cancelled")
                                                 ELSE Event("error", "timeout"),
                             FinalStateEvent >>
                /\ fstate'.user_retry_budget = before.user_retry_budget
                /\ fstate'.lifecycle = before.lifecycle]_vars

\* a turn ended as cancelled at the completion of a validator that reported
\* an error: the budget is the one the turn started with
C24_Witness ==
    /\ pc = "done" /\ vres.type = "error" /\ path = "cancel"
    /\ Len(out) = 2
    /\ fstate.user_retry_budget = before.user_retry_budget

----------------------------------------------------------------------------
(* Properties of the Simulation Subgraph *)

\* C26: within a turn the finalizer never starts before both the validator
\* and the updater have completed, whichever of the two completed first; a
\* turn the controller stopped has no finalizer at all
C26_FinalizerAfterBothWorkers ==
    /\ FINALIZE_NAME \in done => {VALIDATOR_NAME, UPDATER_NAME} \subseteq done
    /\ (pc = "done" /\ path \in {"cancel", "timeout", "reject"}
           /\ IsNone(fstate.updater_response)) =>
          \A i \in DOMAIN out : out[i].type # "ai"

\* the finalizer has run in a turn still streaming: its output was yielded
C26_Witness ==
    /\ pc = "stream" /\ done = {VALIDATOR_NAME, UPDATER_NAME, FINALIZE_NAME}
    /\ Len(out) = 1 /\ out[1].type = "ai"

\* C27: history is mutated only by the finalizer: a turn through a node that
\* is not the finalizer (a custom node, a builtin) ends with the history the
\* turn started with, which is empty here
C27_OnlyFinalizerWritesHistory ==
    cp.stage = "ran" => cp.after.history = make_state.history

\* C28: the finalizer follows its decision table: with no validator result a
\* generic error is the output; with a validator error history is not
\* advanced and the validator's message is the output; with a validator info
\* and an updater result the user's message (when there is one) and the
\* updater's message are committed and the updater's content is the output;
\* with a validator info and no updater result a safety-net error is the
\* output
C28_FinalizerDecisionTable ==
    done = {FINALIZE_NAME} =>
       LET v  == before.validator_response
           u  == before.updater_response
           ui == before.user_input
       IN
       /\ IsNone(v) =>
             /\ fstate.simulator_output = SimulationMessage("error", "no_validation")
             /\ fstate.history = before.history
       /\ v.type = "error" =>
             /\ fstate.history = before.history
             /\ fstate.simulator_output = v
       /\ (v.type = "info" /\ ~IsNone(u)) =>
             /\ fstate.simulator_output = u
             /\ fstate.history =
                   before.history
                   \o (IF IsNone(ui) THEN <<>> ELSE <<HumanMessage(ui.content)>>)
                   \o <<AIMessage(u.content)>>
       /\ (v.type = "info" /\ IsNone(u)) =>
             /\ fstate.simulator_output = SimulationMessage("error", "no_response")
             /\ fstate.history = before.history

----------------------------------------------------------------------------
(* Properties of routing *)

Matching(cl, s) == TruthyIfs(cl, s) \cup Elses(cl)

\* C29: the router evaluates the clauses in declaration order and returns the
\* destination of the first clause that matches (an `if` whose predicate is
\* truthy, or an `else`); when no clause matches the turn routes to
\* end-of-turn; in every case the router's result is a key the path_map of
\* the compiled conditional edge resolves
C29_RouterResultResolves ==
    rt.routed =>
       /\ Matching(rt.clauses, rt.state) # {} =>
             rt.dest = rt.clauses[FirstIndex(Matching(rt.clauses, rt.state))].dest
       /\ rt.dest \in DOMAIN path_map(rt.clauses)
       /\ Matching(rt.clauses, rt.state) = {} =>
             path_map(rt.clauses)[rt.dest] = "__end__"

EvalFails(e, s) ==
    /\ e.form \notin {"empty", "len_messages_literal"}
    /\ EvalSource(e, s) \notin {"True", "False"}

\* C30: evaluating a routing expression never raises: whatever eval makes of
\* the text (unknown name, type error, malformed expression, disallowed
\* function), eval_condition and predicate return a truth value, a failure
\* is read as false, and the router goes on with the clause after the one
\* that failed
C30_EvaluationNeverRaises ==
    rt.routed =>
       /\ rt.dest # "raised"
       /\ \A i \in DOMAIN rt.clauses :
             rt.clauses[i].kind = "if" =>
                /\ eval_condition(rt.clauses[i].expr, rt.state) \in {"True", "False"}
                /\ predicate(rt.clauses[i].expr, rt.state) \in {"True", "False"}
                /\ EvalFails(rt.clauses[i].expr, rt.state) =>
                      /\ eval_condition(rt.clauses[i].expr, rt.state) = "False"
                      /\ predicate(rt.clauses[i].expr, rt.state) = "False"
       /\ (rt.clauses[1].kind = "if" /\ EvalFails(rt.clauses[1].expr, rt.state)) =>
             rt.dest = router(rt.clauses, rt.state, 2)

\* the first clause called a function eval does not know, the second one
\* decided
C30_Witness ==
    /\ rt.routed /\ Len(rt.clauses) >= 2
    /\ rt.clauses[1].kind = "if" /\ rt.clauses[1].expr.form = "call"
    /\ EvalSource(rt.clauses[1].expr, rt.state) = "NameError"
    /\ rt.clauses[2].kind = "else"
    /\ rt.dest = rt.clauses[2].dest /\ rt.dest # rt.clauses[1].dest

----------------------------------------------------------------------------
(* Properties of the events and of the State of a turn *)

C32_ResponsesAreOfThisTurn ==
    pc = "done" => fstate.validator_response = vres

----------------------------------------------------------------------------
(* Properties of node execution *)

\* C33: executing a node has no side effect beyond the returned patch: the
\* State passed to the form builtin is unchanged when it returns
C33_NodeLeavesStateAlone ==
    fm.last.node = "form" => fm.last.after = fm.last.before

\* C34: NodeSpec is read-only after compile: running the node leaves its
\* specification as it was compiled, so the templated patches of an
\* update_state node are still templates after the node has run
C34_NodeSpecReadOnly ==
    [][cp.stage \in {"compiled", "ran"} => cp'.node = cp.node]_vars

----------------------------------------------------------------------------
(* Properties of the retry budget and of the driving loops *)

\* the test that ends the CLI run loop after a step: lifecycle EXIT
CliLoopEnds == pc = "idle" /\ created /\ run.state.lifecycle = "EXIT"

BudgetExhausted == "user retry budget exhausted"

\* C35: when a turn ends with lifecycle EXIT because the retry budget was
\* exhausted, then at the end of the driving loop the run is marked exited,
\* its exit_reason records the exhaustion and persistence has been triggered
C35_ExhaustionEndsGracefully ==
    (CliLoopEnds /\ run.state.exit_reason = BudgetExhausted) =>
        /\ run.exited
        /\ run.exit_reason = TextReason(BudgetExhausted)
        /\ persist # <<>>

\* C36: user_retry_budget is a non-negative integer in every reachable
\* State: from an initial budget >= 0 no sequence of turns and validator
\* rejections drives it below zero
C36_BudgetNeverNegative ==
    run.budget0 >= 0 =>
        /\ run.state.user_retry_budget >= 0
        /\ cur.user_retry_budget >= 0
        /\ fstate.user_retry_budget >= 0

\* C37: the retry budget is a ceiling on consecutive rejected user actions:
\* rejections separated by an accepted action do not add up toward forced
\* exit, so after an accepted user action the run tolerates as many
\* rejections as at its start
C37_RejectionsCountConsecutively ==
    [][(/\ pl.stage = "step" /\ pl.input = "text"
        /\ pl'.stage = "top" /\ pl'.path = "normal"
        /\ run'.state.validator_response.type = "info")
          => run'.state.user_retry_budget = run.budget0]_vars

\* C39: play never requests input from the provider once the run has
\* exited: in an iteration whose stopping check (a stopping condition or
\* lifecycle EXIT) exits the run, the provider is not called
C39_NoInputAfterExit ==
    [][(pl.stage = "top" /\ ~run.exited /\ StopCheck(run, clock) # NoReason)
          => ~pl'.fetched]_vars

\* a condition declared in the game configuration of run r is satisfied
DeclaredMet(r, now) ==
    LET d == [r EXCEPT !.stopping_conditions = r.game_stopping_conditions] IN
    AllRelational(d) /\ StopMet(d, now)

\* C40: stopping conditions declared in the game configuration take effect
\* on the run created from it: a step of a run that has not exited, taken
\* while a declared condition is satisfied, exits the run
C40_DeclaredConditionsTakeEffect ==
    [][(/\ created /\ pc = "idle" /\ ~run.exited
        /\ clock' = clock /\ <<run, persist, calls>>' # <<run, persist, calls>>
        /\ DeclaredMet(run, clock)) => run'.exited]_vars

----------------------------------------------------------------------------
(* Properties of the form builtin *)

\* positions of the unanswered questions of q
Unanswered(q) == {i \in DOMAIN q : q[i] = ""}

\* C38: the form builtin advances one unanswered item at a time: each
\* invocation records at most one answer, always into the first unanswered
\* question, never changes an answered question, returns the next
\* unanswered question while one remains, and signals completion
\* (lifecycle EXIT) exactly when no unanswered question remains
C38_FormAdvancesOneItem ==
    (fm.last.node = "form" /\ fm.last.result # "ValueError") =>
        LET b == fm.last.before
            p == fm.last.patch
            changed == {i \in DOMAIN b : p[i] # b[i]}
        IN  /\ Len(p) = Len(b)
            /\ Cardinality(changed) <= 1
            /\ changed \subseteq {FirstUnanswered(b, 1)}
            /\ fm.last.recorded <=> changed # {}
            /\ \A i \in DOMAIN b : b[i] # "" => p[i] = b[i]
            /\ (Unanswered(p) # {}) =>
                   /\ fm.last.result = "question"
                   /\ fm.last.asked = FirstUnanswered(p, 1)
            /\ (fm.last.result = "EXIT") <=> (Unanswered(p) = {})
            /\ (fm.lifecycle = "EXIT") <=> (Unanswered(fm.questions) = {})

\* an answer was recorded into the second question of a form whose first
\* was answered, and a question remains to be asked
C38_Witness ==
    /\ fm.last.node = "form" /\ fm.last.recorded
    /\ Len(fm.last.before) = 3
    /\ fm.last.before[1] = "old" /\ fm.last.before[2] = "" /\ fm.last.before[3] = ""
    /\ fm.last.patch[2] = "yes"
    /\ fm.last.asked = 3

====
